---- MODULE Spec2Model ----
(***************************************************************************)
(* Model of the incremental SQL collector agent: the durable retry queue   *)
(* (agent_queue.py), the watermark store (state.py), the extractor         *)
(* (collector.py), delivery (sender.py) and the orchestration loop         *)
(* (main.py, run).                                                         *)
(*                                                                         *)
(* A datetime is an integer number of minutes since 1900-01-01 00:00.      *)
(* A Python value that may be a datetime, an ISO-8601 text or None is a    *)
(* tagged record [tag, v]; integer columns are plain integers.             *)
(***************************************************************************)
EXTENDS Integers, Sequences, FiniteSets, TLC

\* ------------------------------------------------------------------ bounds
MaxId == 2          \* ids of the id-mode source "a" range over 1..MaxId
MaxTs == 1          \* timestamps of the ts-mode sources "b" and "f" range up to MaxTs
MaxTie == 2         \* tie-breaker values of source "f" range over 1..MaxTie
MaxBatch == 2       \* runtime.batch_size ranges over 1..MaxBatch
MaxLookback == 1    \* runtime.lookback_minutes ranges over 0..MaxLookback
MaxLines == 3       \* lines written by the queue harness
MaxQueued == 3      \* items of a queue file found at startup
MaxWindow == 2      \* runtime.reprocess_window_minutes ranges over 0..MaxWindow
MaxTicks == 2       \* minutes the clock advances during a run
MaxStarts == 2      \* worker threads the supervisor creates

\* --------------------------------------------------------- Python values
PyNone == [tag |-> "none", v |-> 0]
PyDt(t) == [tag |-> "dt", v |-> t]
PyStr(t) == [tag |-> "str", v |-> t]        \* datetime.isoformat() text of t
PyStrSp(t) == [tag |-> "strsp", v |-> t]    \* str(datetime): blank separator
PyInt(n) == [tag |-> "int", v |-> n]
PyDate(t) == [tag |-> "date", v |-> t]      \* a datetime.date, as a DATE column yields

Epoch == 0                                  \* datetime(1900, 1, 1)
MB == 1024 * 1024

isoformat(t) == PyStr(t)

\* mutant: a text is not parsed
normalize_timestamp_dtOnly(value) ==
    IF value.tag = "dt" THEN value.v ELSE Epoch

\* config.py 296-301
normalize_timestamp(value) ==
    IF value.tag = "dt" THEN value.v
    ELSE IF value.tag \in {"str", "strsp"} THEN value.v
    ELSE Epoch

Get(d, k, default) == IF k \in DOMAIN d THEN d[k] ELSE default

Max2(x, y) == IF x >= y THEN x ELSE y
Min2(x, y) == IF x <= y THEN x ELSE y

RECURSIVE SeqSum(_)
SeqSum(s) == IF s = <<>> THEN 0 ELSE Head(s) + SeqSum(Tail(s))

Range(s) == {s[i] : i \in DOMAIN s}

\* ------------------------------------------------------- configuration
ClientId == "client"
AgentId == "agent"
SourceNames == {"a", "b", "c", "d", "e", "f", "g", "x"}

\* sources[].table of a source definition; "x" names a table with a blank
\* and a semicolon, "y" has no table
source_table(name) ==
    IF name = "x" THEN "t x;" ELSE IF name = "y" THEN "" ELSE "dbo.t_1"

\* the characters of the identifiers the configurations use, split on "."
SplitDot(identifier) ==
    IF identifier = "dbo.t_1" THEN << <<"d", "b", "o">>, <<"t", "_", "1">> >>
    ELSE IF identifier = "t x;" THEN << <<"t", " ", "x", ";">> >>
    ELSE IF identifier = "id" THEN << <<"i", "d">> >>
    ELSE IF identifier = "ts" THEN << <<"t", "s">> >>
    ELSE << <<>> >>

IsAlnumChar(c) == c \in {"d", "b", "o", "t", "1", "x", "i", "s"}

\* str.isalnum(): not empty and every character alphanumeric
isalnum(chars) == chars # <<>> /\ \A i \in DOMAIN chars : IsAlnumChar(chars[i])

NotUnderscore(c) == c # "_"

\* collector.py 14-21: _quote_identifier returns; FALSE when it raises ValueError
_quote_identifier(identifier) ==
    \A i \in DOMAIN SplitDot(identifier) :
       LET part == SplitDot(identifier)[i]
       IN part # <<>> /\ isalnum(SelectSeq(part, NotUnderscore))

\* config.py 164-186: _parse_source accepts the definition of a table source
_parse_source(name) == name # "" /\ source_table(name) # ""

\* config.py 256-273: the source list is accepted
load_config_from_dict(srcs) == srcs # <<>> /\ \A i \in DOMAIN srcs : _parse_source(srcs[i])

\* the configuration files tried, each in configuration order
ConfigFiles == {<<"b">>, <<"a", "c">>, <<"c", "d", "e">>, <<"x">>, <<"y">>}

\* the configurations of config.sources the loop is started with
Configs == {srcs \in ConfigFiles : load_config_from_dict(srcs)}

incremental(name) ==
    [mode |-> IF name \in {"b", "d", "f"} THEN "ts" ELSE "id",
     id_column |-> "id",
     ts_column |-> "ts",
     tie_breaker |-> "id",
     start_from |-> IF name = "a" THEN PyStr(MaxTs) ELSE PyNone]

\* rows a source table can ever hold; "data" is the serialized width in
\* bytes of the row's remaining columns
Universe(name) ==
    IF name = "a"
      THEN {[id |-> i, ts |-> PyDt(Epoch),
             data |-> IF i = 1 THEN MB \div 2 - 1 ELSE MB \div 2] : i \in 1..MaxId}
    ELSE IF name = "b"
      THEN {[id |-> k, ts |-> PyDt(t), data |-> 1] : t \in 1..MaxTs, k \in {1, 2}}
    ELSE IF name = "d"
      THEN {[id |-> 1, ts |-> PyDt(1), data |-> 1]}
    ELSE IF name = "f"
      THEN {[id |-> k, ts |-> PyDt(t), data |-> 1] : t \in 0..MaxTs, k \in 1..MaxTie}
    ELSE IF name = "g"
      THEN {[id |-> 1, ts |-> PyDate(Epoch), data |-> 1]}
    ELSE IF name = "x"
      THEN {}
    ELSE {[id |-> 1, ts |-> PyDt(Epoch), data |-> 1]}

\* ------------------------------------------------------------ variables
VARIABLES
    sources,            \* config.sources: source names in configuration order
    batch_size,         \* config.runtime.batch_size
    lookback_minutes,   \* config.runtime.lookback_minutes
    queue_max_mb,       \* config.runtime.queue_max_mb
    table,              \* rows of each source table in the database
    sink,               \* source_id of every record the sink has accepted
    qfile,              \* the queue file: [exists, lines]
    stfile,             \* the watermark file: [exists, sources]
    state,              \* run(): the in-memory watermark mapping state["sources"]
    pc,                 \* run(): position in the loop
    pending,            \* run(): items loaded from the queue
    index,              \* run(): position in pending
    remaining,          \* run(): items to keep
    src_i,              \* run(): position in config.sources
    rows,               \* run(): the batch being delivered (raw rows or queued records)
    log,                \* the records logged since the current cycle began
    healthy,            \* environment: no more failures, crashes or inserts
    ret,                \* harness: result of the last queue call
    appended,           \* harness: items written since the queue was last empty
    arg,                \* harness: the argument of the call
    reprocess_every_minutes,    \* config.runtime.reprocess_every_minutes
    reprocess_window_minutes,   \* config.runtime.reprocess_window_minutes
    now,                \* datetime.now(), in minutes
    next_reprocess_at,  \* run(): when the next reprocessing is due
    cursor,             \* run(): last_id, last_ts, last_tie handed to fetch_rows
    stfile0,            \* the watermark file as it was when the cycle in flight began
    stop_event,         \* the Event run() observes: "none", "clear" or "set"
    _thread,            \* runner.py: number of the Thread in _thread, 0 for None
    _last_error,        \* runner.py: _last_error
    _config_path,       \* runner.py: _config_path
    orphans,            \* workers alive that _thread no longer refers to
    status_ret          \* the dict returned by the last status() call

cfgvars == <<sources, batch_size, lookback_minutes, queue_max_mb,
            reprocess_every_minutes, reprocess_window_minutes>>
loopvars == <<pc, pending, index, remaining, src_i, rows, log, cursor, stfile0>>
harnessvars == <<ret, appended, arg>>
clockvars == <<now, next_reprocess_at>>
runnervars == <<stop_event, _thread, _last_error, _config_path, orphans, status_ret>>
vars == <<sources, batch_size, lookback_minutes, queue_max_mb, table, sink,
          qfile, stfile, state, pc, pending, index, remaining, src_i, rows,
          log, healthy, ret, appended, arg, reprocess_every_minutes,
          reprocess_window_minutes, now, next_reprocess_at, cursor, stfile0, stop_event,
          _thread, _last_error, _config_path, orphans, status_ret>>

\* ------------------------------------------------------ main.py records
_normalize_value(value) ==
    IF value.tag = "dt" THEN isoformat(value.v) ELSE value

_normalize_row(row) == [row EXCEPT !.ts = _normalize_value(row.ts)]

_build_record(name, row) ==
    LET payload == _normalize_row(row)
        inc == incremental(name)
        identity_value ==
            IF inc.mode = "id" THEN <<payload[inc.id_column]>>
            ELSE <<payload[inc.ts_column].v, payload[inc.tie_breaker]>>
    IN [source_id |-> [client |-> ClientId, agent |-> AgentId,
                       source |-> name, identity |-> identity_value],
        client_id |-> ClientId,
        agent_id |-> AgentId,
        source |-> name,
        payload |-> payload]

_build_records(name, batch) == [i \in DOMAIN batch |-> _build_record(name, batch[i])]

\* ----------------------------------------------------- agent_queue.py
NoFile == [exists |-> FALSE, lines |-> <<>>]

\* json.dumps(item, default=str): a datetime left in a payload is written as
\* str(datetime); everything else in an item is JSON-native
json_dumps_row(rec) ==
    [rec EXCEPT !.payload.ts =
        IF rec.payload.ts.tag = "dt" THEN PyStrSp(rec.payload.ts.v)
        ELSE IF rec.payload.ts.tag = "date" THEN PyStr(rec.payload.ts.v)
        ELSE rec.payload.ts]

\* mutant: the rows of an item are written last row first
json_dumps_rowsReversed(item) ==
    [kind |-> "json",
     obj |-> [item EXCEPT !.rows = [i \in DOMAIN item.rows |->
                                      json_dumps_row(item.rows[Len(item.rows) + 1 - i])]]]

json_dumps(item) ==
    [kind |-> "json",
     obj |-> [item EXCEPT !.rows = [i \in DOMAIN item.rows |-> json_dumps_row(item.rows[i])]]]

CorruptLine == [kind |-> "corrupt", obj |-> [source |-> "", rows |-> <<>>, rows_is_list |-> TRUE]]

\* bytes of one line of the file: the payload data of its rows and the newline
LineBytes(line) == SeqSum([i \in DOMAIN line.obj.rows |-> line.obj.rows[i].payload.data]) + 1

st_size(file) == SeqSum([i \in DOMAIN file.lines |-> LineBytes(file.lines[i])])

\* mutant: the items are collected in reverse order
RECURSIVE load_lines_reversed(_)
load_lines_reversed(lines) ==
    IF lines = <<>> THEN <<>>
    ELSE IF Head(lines).kind = "json"
      THEN load_lines_reversed(Tail(lines)) \o <<Head(lines).obj>>
    ELSE load_lines_reversed(Tail(lines))

RECURSIVE load_lines(_)
load_lines(lines) ==
    IF lines = <<>> THEN <<>>
    ELSE IF Head(lines).kind = "json" THEN <<Head(lines).obj>> \o load_lines(Tail(lines))
    ELSE load_lines(Tail(lines))

load_queue(file) == IF ~file.exists THEN <<>> ELSE load_lines(file.lines)

\* mutant: the cap is compared with <= instead of <
_can_append_le(file, max_mb) ==
    IF max_mb <= 0 THEN TRUE
    ELSE IF ~file.exists THEN TRUE
    ELSE st_size(file) <= max_mb * MB

_can_append(file, max_mb) ==
    IF max_mb <= 0 THEN TRUE
    ELSE IF ~file.exists THEN TRUE
    ELSE st_size(file) < max_mb * MB

\* mutant: the item is written without consulting the cap
append_queue_noCap(file, item, max_mb) ==
    [file |-> [exists |-> TRUE, lines |-> Append(file.lines, json_dumps(item))],
     ok |-> TRUE]

\* result of append_queue: the file afterwards and the returned flag
append_queue(file, item, max_mb) ==
    IF ~_can_append(file, max_mb) THEN [file |-> file, ok |-> FALSE]
    ELSE [file |-> [exists |-> TRUE, lines |-> Append(file.lines, json_dumps(item))],
          ok |-> TRUE]

rewrite_queue(file, items) ==
    IF items = <<>> THEN NoFile
    ELSE [exists |-> TRUE, lines |-> [i \in DOMAIN items |-> json_dumps(items[i])]]

\* ------------------------------------------------------------ state.py
\* the watermark file: form tells what its text is ("object": a JSON object
\* whose "sources" is an object, held in sources; "no_sources": a JSON
\* object without "sources"; "sources_array": "sources" is not an object;
\* "array": valid JSON that is not an object; "garbage": not JSON;
\* "unreadable": the path cannot be opened)
NoState == [exists |-> FALSE, form |-> "object", sources |-> <<>>]

\* state.py 15-16: the exception raised inside the try block, "none" if none
load_state_raises(file) ==
    IF file.form = "unreadable" THEN "OSError"
    ELSE IF file.form = "garbage" THEN "JSONDecodeError"
    ELSE "none"

\* mutant: only OSError is caught
load_state_catches_osOnly(exc) == exc = "OSError"

\* state.py 22: except (OSError, ValueError, json.JSONDecodeError)
load_state_catches(exc) == exc \in {"OSError", "ValueError", "JSONDecodeError"}

\* state.py 11-23: the mapping data["sources"] of the returned dict
load_state(file) ==
    IF ~file.exists THEN <<>>
    ELSE IF load_state_raises(file) # "none" THEN <<>>
    ELSE IF file.form # "object" THEN <<>>
    ELSE file.sources

save_state(mapping) == [exists |-> TRUE, form |-> "object", sources |-> mapping]

\* the mapping after sources.setdefault(source, {}); the entry is mapping[source]
get_source_state(mapping, source) ==
    IF source \in DOMAIN mapping THEN mapping ELSE mapping @@ (source :> <<>>)

\* wm is the triple computed by _watermark_from_batch
update_source_state(mapping, source, wm) ==
    LET p1 == [last_id |-> wm.last_id]
        p2 == IF wm.last_ts # PyNone THEN p1 @@ [last_ts |-> isoformat(wm.last_ts.v)] ELSE p1
        p3 == IF wm.last_tie # PyNone THEN p2 @@ [last_tie |-> wm.last_tie.v] ELSE p2
    IN [s \in DOMAIN mapping \cup {source} |-> IF s = source THEN p3 ELSE mapping[s]]

\* -------------------------------------------------------- collector.py
\* mutant: the tie-breaker clause is missing from the ts predicate
_build_where_noTie(inc, row, last_id, last_ts, last_tie) ==
    IF inc.mode = "id" THEN row[inc.id_column] > last_id
    ELSE row[inc.ts_column].v > last_ts

\* mutant: the id predicate is >= instead of >
_build_where_ge(inc, row, last_id, last_ts, last_tie) ==
    IF inc.mode = "id" THEN row[inc.id_column] >= last_id
    ELSE \/ row[inc.ts_column].v > last_ts
         \/ row[inc.ts_column].v = last_ts /\ row[inc.tie_breaker] > last_tie

_build_where(inc, row, last_id, last_ts, last_tie) ==
    IF inc.mode = "id" THEN row[inc.id_column] > last_id
    ELSE \/ row[inc.ts_column].v > last_ts
         \/ row[inc.ts_column].v = last_ts /\ row[inc.tie_breaker] > last_tie

\* mutant: the ORDER BY is descending
OrderBefore_desc(inc, r, q) ==
    IF inc.mode = "id" THEN r[inc.id_column] > q[inc.id_column]
    ELSE \/ r[inc.ts_column].v > q[inc.ts_column].v
         \/ r[inc.ts_column].v = q[inc.ts_column].v /\ r[inc.tie_breaker] > q[inc.tie_breaker]

\* ORDER BY id, or ORDER BY ts ASC, tie ASC
OrderBefore(inc, r, q) ==
    IF inc.mode = "id" THEN r[inc.id_column] < q[inc.id_column]
    ELSE \/ r[inc.ts_column].v < q[inc.ts_column].v
         \/ r[inc.ts_column].v = q[inc.ts_column].v /\ r[inc.tie_breaker] < q[inc.tie_breaker]

RECURSIVE OrderBy(_, _)
OrderBy(inc, S) ==
    IF S = {} THEN <<>>
    ELSE LET m == CHOOSE r \in S : \A q \in S \ {r} : OrderBefore(inc, r, q)
         IN <<m>> \o OrderBy(inc, S \ {m})

Top(n, s) == SubSeq(s, 1, Min2(n, Len(s)))

fetch_rows(tbl, name, last_id, last_ts, last_tie, limit) ==
    LET inc == incremental(name)
    IN Top(limit, OrderBy(inc, {r \in tbl : _build_where(inc, r, last_id, last_ts, last_tie)}))

\* ------------------------------------------------------------- main.py
_payload(row) == IF "payload" \in DOMAIN row THEN row.payload ELSE row

\* mutant: the id of the first row instead of the maximum
MaxId_of_first(batch, id_column) == _payload(Head(batch))[id_column]

RECURSIVE MaxId_of(_, _)
MaxId_of(batch, id_column) ==
    IF Len(batch) = 1 THEN _payload(Head(batch))[id_column]
    ELSE Max2(_payload(Head(batch))[id_column], MaxId_of(Tail(batch), id_column))

\* mutant: rows of equal timestamp are not compared by tie
RECURSIVE BestOf_noTie(_, _, _, _)
BestOf_noTie(batch, best, ts_column, tie_breaker) ==
    IF batch = <<>> THEN best
    ELSE LET payload == _payload(Head(batch))
             ts_value == normalize_timestamp(payload[ts_column])
             tie == payload[tie_breaker]
             take == \/ best.ts = PyNone
                     \/ ts_value > best.ts.v
         IN BestOf_noTie(Tail(batch),
                         IF take THEN [ts |-> PyDt(ts_value), tie |-> tie] ELSE best,
                         ts_column, tie_breaker)

\* the loop of _watermark_from_batch over the rows, best = [ts, tie]
RECURSIVE BestOf(_, _, _, _)
BestOf(batch, best, ts_column, tie_breaker) ==
    IF batch = <<>> THEN best
    ELSE LET payload == _payload(Head(batch))
             ts_value == normalize_timestamp(payload[ts_column])
             tie == payload[tie_breaker]
             take == \/ best.ts = PyNone
                     \/ ts_value > best.ts.v
                     \/ ts_value = best.ts.v /\ tie > best.tie
         IN BestOf(Tail(batch),
                   IF take THEN [ts |-> PyDt(ts_value), tie |-> tie] ELSE best,
                   ts_column, tie_breaker)

_watermark_from_batch(batch, mode, id_column, ts_column, tie_breaker) ==
    IF batch = <<>> THEN [last_id |-> 0, last_ts |-> PyNone, last_tie |-> PyNone]
    ELSE IF mode = "id"
      THEN [last_id |-> MaxId_of(batch, id_column), last_ts |-> PyNone, last_tie |-> PyNone]
    ELSE LET best == BestOf(batch, [ts |-> PyNone, tie |-> 0], ts_column, tie_breaker)
         IN [last_id |-> best.tie, last_ts |-> best.ts, last_tie |-> PyInt(best.tie)]

WatermarkOf(name, batch) ==
    LET inc == incremental(name)
    IN _watermark_from_batch(batch, inc.mode, inc.id_column, inc.ts_column, inc.tie_breaker)

\* mapping is the mapping after get_source_state(state, source.name)
_get_watermark(mapping, name) ==
    LET source_state == mapping[name]
        last_id == Get(source_state, "last_id", 0)
        last_ts == Get(source_state, "last_ts", PyNone)
        last_tie == Get(source_state, "last_tie", last_id)
    IN [last_id |-> last_id,
        last_ts |-> IF incremental(name).mode = "ts" THEN normalize_timestamp(last_ts)
                    ELSE Epoch,
        last_tie |-> last_tie]

_apply_start_from(name, last_ts) ==
    LET inc == incremental(name)
    IN IF inc.mode # "ts" THEN last_ts
       ELSE IF inc.start_from = PyNone THEN last_ts
       ELSE Max2(last_ts, normalize_timestamp(inc.start_from))

\* mutant: the lookback is added instead of subtracted
_apply_lookback_plus(last_ts, minutes) ==
    IF minutes <= 0 THEN last_ts ELSE last_ts + minutes

_apply_lookback(last_ts, minutes) ==
    IF minutes <= 0 THEN last_ts ELSE last_ts - minutes

\* main.py 169-178: the reprocessing is due and rewinds a ts-mode cursor
ReprocessDue == reprocess_every_minutes > 0 /\ now >= next_reprocess_at

\* main.py 169-174: the condition under which the cursor of a source is rewound
RewindApplies(name) ==
    ReprocessDue /\ reprocess_window_minutes > 0 /\ incremental(name).mode = "ts"

_apply_reprocess(name, last_ts) ==
    IF RewindApplies(name)
      THEN Min2(last_ts, now - reprocess_window_minutes)
      ELSE last_ts

\* mutant: the lookback also rewinds the id cursor
LookbackCursor_onId(mapping, name) ==
    LET wm == _get_watermark(mapping, name)
    IN [wm EXCEPT !.last_id = wm.last_id - lookback_minutes,
                  !.last_ts =
           _apply_lookback(_apply_start_from(name, wm.last_ts), lookback_minutes)]

\* the cursor of a source before the reprocessing rewind
LookbackCursor(mapping, name) ==
    LET wm == _get_watermark(mapping, name)
    IN [wm EXCEPT !.last_ts =
           _apply_lookback(_apply_start_from(name, wm.last_ts), lookback_minutes)]

\* the cursor run() hands to fetch_rows for a source
Cursor(mapping, name) ==
    LET lb == LookbackCursor(mapping, name)
    IN [lb EXCEPT !.last_ts = _apply_reprocess(name, lb.last_ts)]

\* sender.py 21-25, 46-48: the JSON encoder of requests.post accepts the batch;
\* _normalize_batch converts only the top-level values of a record, so a date
\* or datetime left inside a payload makes the encoder raise TypeError
json_encodable(batch) ==
    \A i \in DOMAIN batch : batch[i].payload.ts.tag \notin {"dt", "date"}

\* sender.py: the sink after it answered 2xx to a batch of records
send_batch(accepted, batch) == accepted \cup {batch[i].source_id : i \in DOMAIN batch}

\* the watermark a reader of the watermark file sees for a source
PersistedIn(file, name) == _get_watermark(get_source_state(load_state(file), name), name)

Persisted(name) == PersistedIn(stfile, name)

\* -------------------------------------------------------- run(): steps
\* rewound: the branch at main.py 175-178 was taken for the cursor
NoCursor == [last_id |-> 0, last_ts |-> Epoch, last_tie |-> 0, rewound |-> FALSE]

ResetLocals ==
    /\ cursor' = NoCursor
    /\ stfile0' = NoState
    /\ pending' = <<>>
    /\ index' = 0
    /\ remaining' = <<>>
    /\ src_i' = 0
    /\ rows' = <<>>
    /\ log' = <<>>

Logged(event, name) == log' = Append(log, [event |-> event, source |-> name])

IsKnown(name) == \E i \in DOMAIN sources : sources[i] = name

\* mutant: only the source name is validated
IsInvalid_sourceOnly(item) == ~IsKnown(item.source)

\* main.py 142: "not source or not isinstance(rows, list)"
IsInvalid(item) == ~IsKnown(item.source) \/ ~item.rows_is_list

\* mutant: the loop begins a cycle without looking at the stop signal
LoadQueue_ignoresStop ==
    /\ pc = "top"
    /\ pending' = load_queue(qfile)
    /\ remaining' = <<>>
    /\ rows' = <<>>
    /\ IF load_queue(qfile) # <<>>
         THEN pc' = "drain" /\ index' = 1 /\ src_i' = 0
         ELSE pc' = "extract" /\ index' = 0 /\ src_i' = 1
    /\ log' = <<>>
    /\ stfile0' = stfile
    /\ UNCHANGED <<cfgvars, table, sink, qfile, stfile, state, healthy, harnessvars,
                   cursor, clockvars, runnervars>>

\* main.py 132-137: the stop signal is not set; load the queue and enter the
\* drain or the extraction
LoadQueue ==
    /\ pc = "top"
    /\ stop_event # "set"
    /\ pending' = load_queue(qfile)
    /\ remaining' = <<>>
    /\ rows' = <<>>
    /\ IF load_queue(qfile) # <<>>
         THEN pc' = "drain" /\ index' = 1 /\ src_i' = 0
         ELSE pc' = "extract" /\ index' = 0 /\ src_i' = 1
    /\ log' = <<>>
    /\ stfile0' = stfile
    /\ UNCHANGED <<cfgvars, table, sink, qfile, stfile, state, healthy, harnessvars,
                   cursor, clockvars, runnervars>>

AfterItem(i) ==
    /\ index' = i + 1
    /\ pc' = IF i + 1 > Len(pending) THEN "rewrite" ELSE "drain"

\* main.py 142-144: an invalid item is skipped and not kept
DrainSkip ==
    /\ pc = "drain"
    /\ IsInvalid(pending[index])
    /\ AfterItem(index)
    /\ Logged("skip", pending[index].source)
    /\ UNCHANGED <<cfgvars, table, sink, qfile, stfile, state, pending, remaining,
                   src_i, rows, healthy, harnessvars, cursor, stfile0, clockvars, runnervars>>

\* main.py 145: send_batch(config.sink, rows) returns True
DrainSendOk ==
    /\ pc = "drain"
    /\ ~IsInvalid(pending[index])
    /\ sink' = send_batch(sink, pending[index].rows)
    /\ rows' = pending[index].rows
    /\ pc' = "drain_save"
    /\ UNCHANGED <<log, cfgvars, table, qfile, stfile, state, pending, index, remaining,
                   src_i, healthy, harnessvars, cursor, stfile0, clockvars, runnervars>>

\* main.py 146-155: the watermark of the replayed batch is stored and saved
DrainSave ==
    /\ pc = "drain_save"
    /\ LET name == pending[index].source
       IN /\ state' = update_source_state(state, name, WatermarkOf(name, rows))
          /\ stfile' = save_state(state')
    /\ rows' = <<>>
    /\ AfterItem(index)
    /\ Logged("queued_sent", pending[index].source)
    /\ UNCHANGED <<cfgvars, table, sink, qfile, pending, remaining, src_i, healthy,
                   harnessvars, cursor, stfile0, clockvars, runnervars>>

\* mutant: the failed item itself is not kept
DrainSendFail_dropsFailed ==
    /\ pc = "drain"
    /\ ~healthy
    /\ ~IsInvalid(pending[index])
    /\ pending[index].rows # <<>>
    /\ remaining' = SubSeq(pending, index + 1, Len(pending))
    /\ pc' = "rewrite"
    /\ Logged("http_error", pending[index].source)
    /\ UNCHANGED <<cfgvars, table, sink, qfile, stfile, state, pending, index, src_i,
                   rows, healthy, harnessvars, cursor, stfile0, clockvars, runnervars>>

\* main.py 156-158: send_batch returns False (never for an empty batch)
DrainSendFail ==
    /\ pc = "drain"
    /\ ~healthy
    /\ ~IsInvalid(pending[index])
    /\ pending[index].rows # <<>>
    /\ remaining' = SubSeq(pending, index, Len(pending))
    /\ pc' = "rewrite"
    /\ Logged("http_error", pending[index].source)
    /\ UNCHANGED <<cfgvars, table, sink, qfile, stfile, state, pending, index, src_i,
                   rows, healthy, harnessvars, cursor, stfile0, clockvars, runnervars>>

\* mutant: the extraction follows the drain even when items remain
Rewrite_alwaysExtracts ==
    /\ pc = "rewrite"
    /\ qfile' = rewrite_queue(qfile, remaining)
    /\ pc' = "extract" /\ src_i' = 1
    /\ UNCHANGED <<log, cfgvars, table, sink, stfile, state, pending, index, remaining,
                   rows, healthy, harnessvars, cursor, stfile0, clockvars, runnervars>>

\* main.py 159-162: the queue is rewritten; a drain that failed backs off
Rewrite ==
    /\ pc = "rewrite"
    /\ qfile' = rewrite_queue(qfile, remaining)
    /\ IF remaining # <<>>
         THEN pc' = "backoff" /\ src_i' = 0
         ELSE pc' = "extract" /\ src_i' = 1
    /\ UNCHANGED <<log, cfgvars, table, sink, stfile, state, pending, index, remaining,
                   rows, healthy, harnessvars, cursor, stfile0, clockvars, runnervars>>

\* mutant: the backoff is followed by the sleep of the interval
Backoff_thenInterval ==
    /\ pc = "backoff"
    /\ pc' = "sleep"
    /\ ResetLocals
    /\ UNCHANGED <<cfgvars, table, sink, qfile, stfile, state, healthy, harnessvars,
                   clockvars, runnervars>>

\* main.py 161-162: time.sleep(retry_backoff); continue
Backoff ==
    /\ pc = "backoff"
    /\ pc' = "top"
    /\ ResetLocals
    /\ UNCHANGED <<cfgvars, table, sink, qfile, stfile, state, healthy, harnessvars,
                   clockvars, runnervars>>

\* main.py 165-186: the cursor of the source and the extraction
\* collector.py 93-116: every identifier embedded in the query of a source
\* passes _quote_identifier
IdentifiersValid(name) ==
    LET inc == incremental(name)
    IN /\ _quote_identifier(source_table(name))
       /\ IF inc.mode = "id" THEN _quote_identifier(inc.id_column)
          ELSE _quote_identifier(inc.ts_column) /\ _quote_identifier(inc.tie_breaker)

Fetch ==
    /\ pc = "extract"
    /\ src_i <= Len(sources)
    /\ IdentifiersValid(sources[src_i])
    /\ LET name == sources[src_i]
           mapping == get_source_state(state, name)
           cur == Cursor(mapping, name)
           fetched == fetch_rows(table[name], name, cur.last_id, cur.last_ts,
                                 cur.last_tie, batch_size)
       IN /\ state' = mapping
          /\ cursor' = [last_id |-> cur.last_id, last_ts |-> cur.last_ts,
                         last_tie |-> cur.last_tie, rewound |-> RewindApplies(name)]
          /\ rows' = fetched
          /\ IF fetched # <<>>
               THEN pc' = "send" /\ src_i' = src_i /\ log' = log
               ELSE pc' = "extract" /\ src_i' = src_i + 1 /\ Logged("no_rows", name)
    /\ UNCHANGED <<cfgvars, table, sink, qfile, stfile, pending, index, remaining,
                   healthy, harnessvars, stfile0, clockvars, runnervars>>

\* main.py 179, 216-219: fetch_rows raises (the database fails, or
\* _quote_identifier rejects an identifier); the cycle ends at the sleep
\* mutant: an exception in the extraction of a source is logged and the loop
\* goes on with the next source
FetchError_continues ==
    /\ pc = "extract"
    /\ src_i <= Len(sources)
    /\ ~(healthy /\ IdentifiersValid(sources[src_i]))
    /\ state' = get_source_state(state, sources[src_i])
    /\ pc' = "extract"
    /\ src_i' = src_i + 1
    /\ Logged("error", sources[src_i])
    /\ UNCHANGED <<cfgvars, table, sink, qfile, stfile, pending, index, remaining,
                   rows, healthy, harnessvars, cursor, stfile0, clockvars, runnervars>>

FetchError ==
    /\ pc = "extract"
    /\ src_i <= Len(sources)
    /\ ~(healthy /\ IdentifiersValid(sources[src_i]))
    /\ state' = get_source_state(state, sources[src_i])
    /\ pc' = "sleep"
    /\ Logged("error", sources[src_i])
    /\ UNCHANGED <<cfgvars, table, sink, qfile, stfile, pending, index, remaining,
                   src_i, rows, healthy, harnessvars, cursor, stfile0, clockvars, runnervars>>

\* main.py 189-190: send_batch(config.sink, records) returns True
SendOk ==
    /\ pc = "send"
    /\ json_encodable(_build_records(sources[src_i], rows))
    /\ sink' = send_batch(sink, _build_records(sources[src_i], rows))
    /\ pc' = "save"
    /\ UNCHANGED <<log, cfgvars, table, qfile, stfile, state, pending, index, remaining,
                   src_i, rows, healthy, harnessvars, cursor, stfile0, clockvars, runnervars>>

\* main.py 191-200: the watermark of the raw fetched batch is stored and saved
Save ==
    /\ pc = "save"
    /\ LET name == sources[src_i]
       IN /\ state' = update_source_state(state, name, WatermarkOf(name, rows))
          /\ stfile' = save_state(state')
    /\ rows' = <<>>
    /\ src_i' = src_i + 1
    /\ pc' = "extract"
    /\ Logged("sent", sources[src_i])
    /\ UNCHANGED <<cfgvars, table, sink, qfile, pending, index, remaining, healthy,
                   harnessvars, cursor, stfile0, clockvars, runnervars>>

\* mutant: the watermark is advanced although the delivery failed
SendFail_advances ==
    /\ pc = "send"
    /\ ~healthy
    /\ json_encodable(_build_records(sources[src_i], rows))
    /\ LET name == sources[src_i]
           item == [source |-> name, rows |-> _build_records(name, rows),
                    rows_is_list |-> TRUE]
           res == append_queue(qfile, item, queue_max_mb)
       IN /\ qfile' = res.file
          /\ state' = update_source_state(state, name, WatermarkOf(name, rows))
          /\ stfile' = save_state(state')
          /\ log' = log \o <<[event |-> "http_error", source |-> name],
                             [event |-> IF res.ok THEN "queued" ELSE "dropped",
                              source |-> name]>>
    /\ rows' = <<>>
    /\ src_i' = src_i + 1
    /\ pc' = "extract"
    /\ UNCHANGED <<cfgvars, table, sink, pending, index, remaining, healthy,
                   harnessvars, cursor, stfile0, clockvars, runnervars>>

\* main.py 201-206: send_batch returns False; the batch is queued or dropped
SendFail ==
    /\ pc = "send"
    /\ ~healthy
    /\ json_encodable(_build_records(sources[src_i], rows))
    /\ LET name == sources[src_i]
           item == [source |-> name, rows |-> _build_records(name, rows),
                    rows_is_list |-> TRUE]
           res == append_queue(qfile, item, queue_max_mb)
       IN /\ qfile' = res.file
          /\ log' = log \o <<[event |-> "http_error", source |-> name],
                             [event |-> IF res.ok THEN "queued" ELSE "dropped",
                              source |-> name]>>
    /\ rows' = <<>>
    /\ src_i' = src_i + 1
    /\ pc' = "extract"
    /\ UNCHANGED <<cfgvars, table, sink, stfile, state, pending, index, remaining,
                   healthy, harnessvars, cursor, stfile0, clockvars, runnervars>>

\* main.py 164, 209-215: every source was processed
FinishCycle ==
    /\ pc = "extract"
    /\ src_i > Len(sources)
    /\ pc' = "sleep"
    /\ next_reprocess_at' = IF ReprocessDue THEN now + reprocess_every_minutes
                            ELSE next_reprocess_at
    /\ UNCHANGED <<log, cfgvars, table, sink, qfile, stfile, state, pending, index,
                   remaining, src_i, rows, healthy, harnessvars, cursor, stfile0, now,
                   runnervars>>

\* main.py 219, 132: time.sleep(interval) and the next iteration
Sleep ==
    /\ pc = "sleep"
    /\ pc' = "top"
    /\ ResetLocals
    /\ UNCHANGED <<cfgvars, table, sink, qfile, stfile, state, healthy, harnessvars,
                   clockvars, runnervars>>

\* the process is killed and started again: main.py 127-128 reload the state
Crash ==
    /\ pc \in {"drain", "drain_save", "rewrite", "backoff", "extract", "send",
               "save", "sleep"}
    /\ ~healthy
    /\ state' = load_state(stfile)
    /\ next_reprocess_at' = now
    /\ pc' = "top"
    /\ ResetLocals
    /\ UNCHANGED <<cfgvars, table, sink, qfile, stfile, healthy, harnessvars, now,
                   runnervars>>

\* the database: a row is committed to a source table; an id-mode table only
\* receives ids above all existing ids
Insert ==
    /\ pc \in {"top", "drain", "drain_save", "rewrite", "backoff", "extract",
               "send", "save", "sleep"}
    /\ ~healthy
    /\ \E i \in DOMAIN sources : \E r \in Universe(sources[i]) \ table[sources[i]] :
         /\ incremental(sources[i]).mode = "id" =>
                \A q \in table[sources[i]] : q.id < r.id
         /\ table' = [table EXCEPT ![sources[i]] = @ \cup {r}]
    /\ UNCHANGED <<cfgvars, sink, qfile, stfile, state, loopvars, healthy, harnessvars,
                   clockvars, runnervars>>

Step ==
    \/ LoadQueue \/ DrainSkip \/ DrainSendOk \/ DrainSave \/ DrainSendFail
    \/ Rewrite \/ Backoff \/ Fetch \/ FetchError \/ SendOk \/ Save \/ SendFail
    \/ FinishCycle \/ Sleep

Next == Step \/ Crash \/ Insert

\* run() called without the supervisor: main.py 124 makes its own Event
NoStatus == [running |-> FALSE, last_error |-> "none", config_path |-> ""]

DirectRun ==
    /\ stop_event = "clear"
    /\ _thread = 0
    /\ _last_error = "none"
    /\ _config_path = "none"
    /\ orphans = 0
    /\ status_ret = NoStatus

\* config.py 210-211: reprocessing is off by default and the clock is not read
ReprocessOff ==
    /\ reprocess_every_minutes = 0
    /\ reprocess_window_minutes = 0
    /\ now = MaxTs
    /\ next_reprocess_at = now

\* a queue file left by an earlier run whose source "z" is no longer configured
StaleItem ==
    [source |-> "z", rows |-> _build_records("z", <<[id |-> 1, ts |-> PyDt(Epoch), data |-> 1]>>),
     rows_is_list |-> TRUE]

Init ==
    /\ sources \in Configs
    /\ batch_size \in 1..MaxBatch
    /\ lookback_minutes \in 0..MaxLookback
    /\ queue_max_mb = 1
    /\ table = [n \in SourceNames |-> {}]
    /\ sink = {}
    /\ qfile \in {NoFile, rewrite_queue(NoFile, <<StaleItem>>)}
    /\ stfile = NoState
    /\ state = load_state(stfile)
    /\ pc = "top"
    /\ pending = <<>>
    /\ index = 0
    /\ remaining = <<>>
    /\ src_i = 0
    /\ rows = <<>>
    /\ log = <<>>
    /\ cursor = NoCursor
    /\ stfile0 = NoState
    /\ healthy = FALSE
    /\ ret = TRUE
    /\ appended = <<>>
    /\ arg = <<>>
    /\ ReprocessOff
    /\ DirectRun

Spec == Init /\ [][Next]_vars

\* ---- the run against fixed tables once the database and the sink are healthy
Heal ==
    /\ ~healthy
    /\ healthy' = TRUE
    /\ UNCHANGED <<cfgvars, table, sink, qfile, stfile, state, loopvars, harnessvars,
                   clockvars, runnervars>>

InitLive ==
    /\ sources \in Configs
    /\ batch_size \in 1..MaxBatch
    /\ lookback_minutes \in 0..MaxLookback
    /\ queue_max_mb = 1
    /\ table \in {[n \in SourceNames |-> IF IsKnown(n) THEN S \cap Universe(n) ELSE {}] :
                     S \in SUBSET UNION {Universe(n) : n \in {"a", "b", "c", "d", "e"}}}
    /\ sink = {}
    /\ qfile \in {NoFile, rewrite_queue(NoFile, <<StaleItem>>)}
    /\ stfile = NoState
    /\ state = load_state(stfile)
    /\ pc = "top"
    /\ pending = <<>>
    /\ index = 0
    /\ remaining = <<>>
    /\ src_i = 0
    /\ rows = <<>>
    /\ log = <<>>
    /\ cursor = NoCursor
    /\ stfile0 = NoState
    /\ healthy = FALSE
    /\ ret = TRUE
    /\ appended = <<>>
    /\ arg = <<>>
    /\ ReprocessOff
    /\ DirectRun

NextLive == Step \/ Crash \/ Heal

\* the worker thread keeps running: a step of the loop that can be taken is taken
SpecLive == InitLive /\ [][NextLive]_vars /\ WF_vars(Step)

\* ---- the run of a fresh installation in which nothing ever fails: the
\* queue stays empty and the loop only extracts, delivers and saves
InitClean ==
    /\ sources \in Configs
    /\ batch_size \in 1..MaxBatch
    /\ lookback_minutes \in 0..MaxLookback
    /\ queue_max_mb = 1
    /\ table \in {[n \in SourceNames |-> IF IsKnown(n) THEN S \cap Universe(n) ELSE {}] :
                     S \in SUBSET UNION {Universe(n) : n \in {"a", "b", "c", "d", "e"}}}
    /\ sink = {}
    /\ qfile = NoFile
    /\ stfile = NoState
    /\ state = load_state(stfile)
    /\ pc = "top"
    /\ pending = <<>>
    /\ index = 0
    /\ remaining = <<>>
    /\ src_i = 0
    /\ rows = <<>>
    /\ log = <<>>
    /\ cursor = NoCursor
    /\ stfile0 = NoState
    /\ healthy = TRUE
    /\ ret = TRUE
    /\ appended = <<>>
    /\ arg = <<>>
    /\ ReprocessOff
    /\ DirectRun

NextClean == LoadQueue \/ Fetch \/ SendOk \/ Save \/ FinishCycle \/ Sleep

SpecClean == InitClean /\ [][NextClean]_vars

\* ---- the run that finds a queue file and a watermark file at startup
\* a line whose "rows" is not a list
MalformedItem == [source |-> "c", rows |-> <<>>, rows_is_list |-> FALSE]

\* a line whose "rows" is the empty list, or that has no "rows" key (main.py 140)
EmptyItem == [source |-> "c", rows |-> <<>>, rows_is_list |-> TRUE]

\* the item run() queues for a failed batch of a source
QueuedItem(name, batch) ==
    [source |-> name, rows |-> _build_records(name, batch), rows_is_list |-> TRUE]

FoundItems ==
    {StaleItem, MalformedItem, EmptyItem,
     QueuedItem("c", <<[id |-> 1, ts |-> PyDt(Epoch), data |-> 1]>>),
     QueuedItem("a", <<[id |-> 1, ts |-> PyDt(Epoch), data |-> MB \div 2 - 1]>>)}

\* the queue files: up to MaxQueued different items in any order
FoundQueues ==
    {q \in UNION {[1..n -> FoundItems] : n \in 0..MaxQueued} :
        \A i, j \in DOMAIN q : i # j => q[i] # q[j]}

InitReplay ==
    /\ sources = <<"a", "c">>
    /\ batch_size \in 1..MaxBatch
    /\ lookback_minutes = 0
    /\ queue_max_mb = 1
    /\ table = [n \in SourceNames |-> IF IsKnown(n) THEN Universe(n) ELSE {}]
    /\ \E done \in BOOLEAN :
          \* the earlier run had delivered the row of "c" or it had not
          /\ stfile = IF done
                        THEN save_state(update_source_state(<<>>, "c",
                                 WatermarkOf("c", <<[id |-> 1, ts |-> PyDt(Epoch), data |-> 1]>>)))
                        ELSE NoState
          /\ sink = IF done THEN {_build_record("c", r).source_id : r \in Universe("c")} ELSE {}
    /\ qfile \in {rewrite_queue(NoFile, q) : q \in FoundQueues}
    /\ state = load_state(stfile)
    /\ pc = "top"
    /\ pending = <<>>
    /\ index = 0
    /\ remaining = <<>>
    /\ src_i = 0
    /\ rows = <<>>
    /\ log = <<>>
    /\ cursor = NoCursor
    /\ stfile0 = NoState
    /\ healthy = FALSE
    /\ ret = TRUE
    /\ appended = <<>>
    /\ arg = <<>>
    /\ ReprocessOff
    /\ DirectRun

NextReplay == Step

SpecReplay == InitReplay /\ [][NextReplay]_vars

\* ---- the run with the periodic reprocessing configured and a running clock
\* a minute passes
Tick ==
    /\ now < MaxTs + MaxTicks
    /\ now' = now + 1
    /\ UNCHANGED <<cfgvars, table, sink, qfile, stfile, state, loopvars, healthy,
                   harnessvars, next_reprocess_at, runnervars>>

InitReprocess ==
    /\ sources = <<"b">>
    /\ batch_size \in 1..MaxBatch
    /\ lookback_minutes = 0
    /\ queue_max_mb = 1
    /\ reprocess_every_minutes \in {0, 1}
    /\ reprocess_window_minutes \in 0..MaxWindow
    /\ now = MaxTs
    /\ next_reprocess_at = now
    /\ table \in {[n \in SourceNames |-> IF IsKnown(n) THEN S ELSE {}] :
                     S \in SUBSET Universe("b")}
    /\ sink = {}
    /\ qfile \in {NoFile, rewrite_queue(NoFile, <<StaleItem>>)}
    /\ stfile = NoState
    /\ state = load_state(stfile)
    /\ pc = "top"
    /\ pending = <<>>
    /\ index = 0
    /\ remaining = <<>>
    /\ src_i = 0
    /\ rows = <<>>
    /\ log = <<>>
    /\ cursor = NoCursor
    /\ stfile0 = NoState
    /\ healthy = FALSE
    /\ ret = TRUE
    /\ appended = <<>>
    /\ arg = <<>>
    /\ DirectRun

NextReprocess == Step \/ Tick

\* an id-mode source configured with start_from, under every lookback and
\* every reprocessing schedule
InitIdCursor ==
    /\ sources = <<"a">>
    /\ batch_size \in 1..MaxBatch
    /\ lookback_minutes \in 0..MaxLookback
    /\ queue_max_mb = 1
    /\ reprocess_every_minutes \in {0, 1}
    /\ reprocess_window_minutes \in 0..MaxWindow
    /\ now = MaxTs
    /\ next_reprocess_at = now
    /\ table \in {[n \in SourceNames |-> IF IsKnown(n) THEN S ELSE {}] :
                     S \in SUBSET Universe("a")}
    /\ sink = {}
    /\ qfile \in {NoFile, rewrite_queue(NoFile, <<StaleItem>>)}
    /\ stfile = NoState
    /\ state = load_state(stfile)
    /\ pc = "top"
    /\ pending = <<>>
    /\ index = 0
    /\ remaining = <<>>
    /\ src_i = 0
    /\ rows = <<>>
    /\ log = <<>>
    /\ cursor = NoCursor
    /\ stfile0 = NoState
    /\ healthy = FALSE
    /\ ret = TRUE
    /\ appended = <<>>
    /\ arg = <<>>
    /\ DirectRun

NextIdCursor == Step \/ Tick \/ Crash

SpecIdCursor == InitIdCursor /\ [][NextIdCursor]_vars

SpecReprocess == InitReprocess /\ [][NextReprocess]_vars

\* ---- the run in which any call of the cycle may raise (main.py 216-219)
\* main.py 134: load_queue raises while reading the file
LoadQueueError ==
    /\ pc = "top"
    /\ stop_event # "set"
    /\ ~healthy
    /\ qfile.exists
    /\ pc' = "sleep"
    /\ log' = <<[event |-> "error", source |-> ""]>>
    /\ stfile0' = stfile
    /\ UNCHANGED <<cfgvars, table, sink, qfile, stfile, state, pending, index, remaining,
                   src_i, rows, cursor, healthy, harnessvars, clockvars, runnervars>>

\* main.py 145, 159, 190, 203: send_batch, rewrite_queue or append_queue raises
\* mutant: an exception in the drain rewrites the queue file with the items
\* not yet delivered
CycleError_rewrites ==
    /\ pc \in {"drain", "rewrite", "send"}
    /\ ~healthy
    /\ pc = "drain" => ~IsInvalid(pending[index]) /\ pending[index].rows # <<>>
    /\ pc' = "sleep"
    /\ qfile' = IF pc = "drain"
                  THEN rewrite_queue(qfile, SubSeq(pending, index, Len(pending)))
                  ELSE qfile
    /\ Logged("error", IF pc = "drain" THEN pending[index].source
                       ELSE IF pc = "send" THEN sources[src_i] ELSE "")
    /\ UNCHANGED <<cfgvars, table, sink, stfile, state, pending, index, remaining,
                   src_i, rows, cursor, stfile0, healthy, harnessvars, clockvars,
                   runnervars>>

CycleError ==
    /\ pc \in {"drain", "rewrite", "send"}
    /\ ~healthy
    /\ pc = "drain" => ~IsInvalid(pending[index]) /\ pending[index].rows # <<>>
    /\ pc' = "sleep"
    /\ Logged("error", IF pc = "drain" THEN pending[index].source
                       ELSE IF pc = "send" THEN sources[src_i] ELSE "")
    /\ UNCHANGED <<cfgvars, table, sink, qfile, stfile, state, pending, index, remaining,
                   src_i, rows, cursor, stfile0, healthy, harnessvars, clockvars,
                   runnervars>>

\* the source whose watermark is being stored
SavingSource == IF pc = "drain_save" THEN pending[index].source ELSE sources[src_i]

\* mutant: the watermark is written although the save raised
SaveError_persists ==
    /\ pc \in {"drain_save", "save"}
    /\ ~healthy
    /\ state' = update_source_state(state, SavingSource, WatermarkOf(SavingSource, rows))
    /\ stfile' = save_state(state')
    /\ pc' = "sleep"
    /\ Logged("error", SavingSource)
    /\ UNCHANGED <<cfgvars, table, sink, qfile, pending, index, remaining,
                   src_i, rows, cursor, stfile0, healthy, harnessvars, clockvars,
                   runnervars>>

\* main.py 146-154, 191-199: _watermark_from_batch raises, or save_state
\* raises after update_source_state has changed the in-memory mapping
SaveError ==
    /\ pc \in {"drain_save", "save"}
    /\ ~healthy
    /\ \E stored \in BOOLEAN :
          state' = IF stored
                     THEN update_source_state(state, SavingSource,
                                              WatermarkOf(SavingSource, rows))
                     ELSE state
    /\ pc' = "sleep"
    /\ Logged("error", SavingSource)
    /\ UNCHANGED <<cfgvars, table, sink, qfile, stfile, pending, index, remaining,
                   src_i, rows, cursor, stfile0, healthy, harnessvars, clockvars,
                   runnervars>>

InitErr == Init /\ sources \in {<<"a", "c">>, <<"c", "d", "e">>}

NextErr == Next \/ LoadQueueError \/ CycleError \/ SaveError

SpecErr == InitErr /\ [][NextErr]_vars

\* ---- a source whose rows carry a DATE column
\* sender.py 46-63, main.py 190, 216-219: the encoder raises TypeError, which
\* send_batch does not catch; run() logs it and the cycle ends at the sleep
SendRaise ==
    /\ pc = "send"
    /\ ~json_encodable(_build_records(sources[src_i], rows))
    /\ pc' = "sleep"
    /\ Logged("error", sources[src_i])
    /\ UNCHANGED <<cfgvars, table, sink, qfile, stfile, state, pending, index, remaining,
                   src_i, rows, healthy, harnessvars, cursor, stfile0, clockvars, runnervars>>

InitSend ==
    /\ sources = <<"e", "g">>
    /\ batch_size \in 1..MaxBatch
    /\ lookback_minutes = 0
    /\ queue_max_mb = 1
    /\ table \in {[n \in SourceNames |-> IF n \in S THEN Universe(n) ELSE {}] :
                     S \in SUBSET {"e", "g"}}
    /\ sink = {}
    /\ qfile \in {NoFile, rewrite_queue(NoFile, <<StaleItem>>)}
    /\ stfile = NoState
    /\ state = load_state(stfile)
    /\ pc = "top"
    /\ pending = <<>>
    /\ index = 0
    /\ remaining = <<>>
    /\ src_i = 0
    /\ rows = <<>>
    /\ log = <<>>
    /\ cursor = NoCursor
    /\ stfile0 = NoState
    /\ healthy = FALSE
    /\ ret = TRUE
    /\ appended = <<>>
    /\ arg = <<>>
    /\ ReprocessOff
    /\ DirectRun

NextSend == Step \/ SendRaise

SpecSend == InitSend /\ [][NextSend]_vars

\* ------------------------------------------------------ send_batch, call by call
\* _LAST_SEND before the first call; status 0 stands for None, error "" for None
NoSend == [count |-> 0, sample |-> <<>>, status |-> 0, error |-> ""]

\* sender.py 36-45: _LAST_SEND as set before the request
LastSend(batch) ==
    [count |-> Len(batch), sample |-> SubSeq(batch, 1, Min2(2, Len(batch))),
     status |-> 0, error |-> ""]

\* the batches run() hands to send_batch, and the empty batch
SbBatches ==
    {<<>>} \cup UNION {{_build_records(n, OrderBy(incremental(n), S)) :
                            S \in (SUBSET Universe(n)) \ {{}}} : n \in {"a", "e", "g"}}

\* what the transport answers: a status code, or 0 for a RequestException
Responses == {0, 199, 200, 204, 299, 300, 404, 500}

\* index counts the requests issued by the last call, appended is _LAST_SEND,
\* arg the batch of the last call, ret its return value
InitSender ==
    /\ sources = <<"a", "e", "g">>
    /\ batch_size = 1
    /\ lookback_minutes = 0
    /\ queue_max_mb = 1
    /\ table = [n \in SourceNames |-> {}]
    /\ sink = {}
    /\ qfile = NoFile
    /\ stfile = NoState
    /\ state = <<>>
    /\ pc = "sb_init"
    /\ pending = <<>>
    /\ index = 0
    /\ remaining = <<>>
    /\ src_i = 0
    /\ rows = <<>>
    /\ log = <<>>
    /\ cursor = NoCursor
    /\ stfile0 = NoState
    /\ healthy = FALSE
    /\ ret = TRUE
    /\ appended = NoSend
    /\ arg = <<>>
    /\ ReprocessOff
    /\ DirectRun

\* sender.py 29-30: the empty batch
SbEmpty ==
    /\ arg' = <<>>
    /\ index' = 0
    /\ ret' = TRUE
    /\ pc' = "sb_returned"
    /\ UNCHANGED <<cfgvars, table, sink, qfile, stfile, state, pending, remaining, src_i,
                   rows, log, cursor, stfile0, healthy, appended, clockvars, runnervars>>

\* sender.py 35-66: one requests.post and its outcome
SbPost ==
    /\ \E batch \in SbBatches \ {<<>>}, resp \in Responses :
         /\ json_encodable(batch)
         /\ arg' = batch
         /\ index' = 1
         /\ appended' = [LastSend(batch) EXCEPT !.status = resp,
                                                !.error = IF resp = 0 THEN "failed" ELSE ""]
         /\ ret' = (200 <= resp /\ resp < 300)
         /\ sink' = IF 200 <= resp /\ resp < 300 THEN send_batch(sink, batch) ELSE sink
    /\ pc' = "sb_returned"
    /\ UNCHANGED <<cfgvars, table, qfile, stfile, state, pending, remaining, src_i,
                   rows, log, cursor, stfile0, healthy, clockvars, runnervars>>

\* sender.py 46-48, 63: the JSON encoder of requests.post raises TypeError
\* before anything is sent, and the except clause does not name it
SbEncodeError ==
    /\ \E batch \in SbBatches \ {<<>>} :
         /\ ~json_encodable(batch)
         /\ arg' = batch
         /\ appended' = LastSend(batch)
    /\ index' = 0
    /\ pc' = "sb_raised"
    /\ UNCHANGED <<cfgvars, table, sink, qfile, stfile, state, pending, remaining, src_i,
                   rows, log, cursor, stfile0, healthy, ret, clockvars, runnervars>>

NextSender == SbEmpty \/ SbPost \/ SbEncodeError

SpecSender == InitSender /\ [][NextSender]_vars

\* ---- the supervisor (runner.py) and the worker thread it starts
\* the source list of the configuration file at a path; the file at "p2" is
\* rejected by load_config
ConfigAt(path) == IF path = "p1" THEN <<"e">> ELSE <<"y">>

\* Thread.is_alive() of the thread in _thread
is_alive == pc \notin {"idle", "dead"}

\* mutant: start() does not look at the running thread
AlreadyRunning_never == FALSE

\* runner.py 17: "_thread and _thread.is_alive()"
AlreadyRunning == _thread # 0 /\ is_alive

\* the worker threads alive
AliveWorkers == orphans + (IF is_alive THEN 1 ELSE 0)

\* runner.py 15-28: start(config_path)
StartCall ==
    /\ _thread < MaxStarts
    /\ \E path \in {"p1", "p2"} :
         /\ arg' = [call |-> "start", path |-> path, seq |-> 1 - arg.seq]
         /\ IF AlreadyRunning
              THEN /\ ret' = FALSE
                   /\ UNCHANGED <<loopvars, runnervars>>
              ELSE /\ _last_error' = "none"
                   /\ _config_path' = path
                   /\ stop_event' = "clear"
                   /\ _thread' = _thread + 1
                   /\ orphans' = orphans + (IF is_alive THEN 1 ELSE 0)
                   /\ pc' = "boot"
                   /\ ResetLocals
                   /\ ret' = TRUE
                   /\ UNCHANGED status_ret
    /\ UNCHANGED <<cfgvars, table, sink, qfile, stfile, state, healthy, appended,
                   clockvars>>

\* runner.py 31-36, main.py 222-224 and 122-130: the thread loads the configuration;
\* an exception ends the thread and is recorded, otherwise run() begins
Boot ==
    /\ pc = "boot"
    /\ IF load_config_from_dict(ConfigAt(_config_path)) /\ ConfigAt(_config_path) = sources
         THEN /\ pc' = "top"
              /\ state' = load_state(stfile)
              /\ next_reprocess_at' = now
              /\ UNCHANGED _last_error
         ELSE /\ pc' = "dead"
              /\ _last_error' = "sources[].table required for kind=table"
              /\ UNCHANGED <<state, next_reprocess_at>>
    /\ UNCHANGED <<cfgvars, table, sink, qfile, stfile, pending, index, remaining, src_i,
                   rows, log, cursor, stfile0, healthy, harnessvars, now, stop_event,
                   _thread, _config_path, orphans, status_ret>>

\* main.py 132: the loop condition finds the stop signal set and run() returns
Exit ==
    /\ pc = "top"
    /\ stop_event = "set"
    /\ pc' = "dead"
    /\ UNCHANGED <<cfgvars, table, sink, qfile, stfile, state, pending, index, remaining,
                   src_i, rows, log, cursor, stfile0, healthy, harnessvars, clockvars,
                   runnervars>>

\* runner.py 39-46: stop(); the join returns when the thread has ended or
\* after the timeout, whichever comes first
StopCall ==
    /\ arg' = [call |-> "stop", path |-> "", seq |-> 1 - arg.seq]
    /\ IF ~AlreadyRunning
         THEN ret' = FALSE /\ UNCHANGED stop_event
         ELSE ret' = TRUE /\ stop_event' = IF stop_event = "none" THEN "none" ELSE "set"
    /\ UNCHANGED <<cfgvars, table, sink, qfile, stfile, state, loopvars, healthy,
                   appended, clockvars, _thread, _last_error, _config_path, orphans,
                   status_ret>>

\* runner.py 49-55: status()
StatusCall ==
    /\ arg' = [call |-> "status", path |-> "", seq |-> 1 - arg.seq]
    /\ status_ret' = [running |-> AlreadyRunning,
                      last_error |-> _last_error,
                      config_path |-> IF _config_path = "none" THEN "" ELSE _config_path]
    /\ UNCHANGED <<cfgvars, table, sink, qfile, stfile, state, loopvars, healthy,
                   ret, appended, clockvars, stop_event, _thread, _last_error,
                   _config_path, orphans>>

InitRunner ==
    /\ sources = ConfigAt("p1")
    /\ batch_size = 1
    /\ lookback_minutes = 0
    /\ queue_max_mb = 1
    /\ table = [n \in SourceNames |-> IF IsKnown(n) THEN Universe(n) ELSE {}]
    /\ sink = {}
    /\ qfile \in {NoFile, rewrite_queue(NoFile, <<StaleItem>>)}
    /\ stfile = NoState
    /\ state = <<>>
    /\ pc = "idle"
    /\ pending = <<>>
    /\ index = 0
    /\ remaining = <<>>
    /\ src_i = 0
    /\ rows = <<>>
    /\ log = <<>>
    /\ cursor = NoCursor
    /\ stfile0 = NoState
    /\ healthy = FALSE
    /\ ret = TRUE
    /\ appended = <<>>
    /\ arg = [call |-> "none", path |-> "", seq |-> 0]
    /\ ReprocessOff
    /\ stop_event = "none"
    /\ _thread = 0
    /\ _last_error = "none"
    /\ _config_path = "none"
    /\ orphans = 0
    /\ status_ret = NoStatus

\* the steps of the worker thread
WorkerStep == Boot \/ Step \/ Exit

NextRunner == WorkerStep \/ StartCall \/ StopCall \/ StatusCall

\* the thread keeps running: a step of the worker that can be taken is taken
SpecRunner == InitRunner /\ [][NextRunner]_vars /\ WF_vars(WorkerStep)

TypeOK ==
    /\ pc \in {"top", "drain", "drain_save", "rewrite", "backoff", "extract",
               "send", "save", "sleep"}
    /\ \A n \in SourceNames : table[n] \subseteq Universe(n)

\* ------------------------------------- load_state and save_state, called alone
BadForms == {"no_sources", "sources_array", "array", "garbage", "unreadable"}

\* the entry of a source in a stored mapping, numbered: 1 is {}; the last
\* number of an id-mode source is an entry written while the source was
\* configured in ts mode
StoredEntry(name, c) ==
    IF c = 1 THEN <<>>
    ELSE IF incremental(name).mode = "id" /\ c <= MaxId + 1 THEN [last_id |-> c - 1]
    ELSE IF incremental(name).mode = "id"
      THEN [last_id |-> 1, last_ts |-> isoformat(MaxTs), last_tie |-> 1]
    ELSE [last_id |-> c - 1, last_ts |-> isoformat(MaxTs), last_tie |-> c - 1]

\* a stored mapping of the sources "a" and "b"; 0 is no entry
StoredMapping(ca, cb) ==
    (IF ca = 0 THEN <<>> ELSE "a" :> StoredEntry("a", ca))
        @@ (IF cb = 0 THEN <<>> ELSE "b" :> StoredEntry("b", cb))

InitState ==
    /\ sources = <<"a", "b">>
    /\ batch_size = 1
    /\ lookback_minutes = 0
    /\ queue_max_mb = 1
    /\ table = [n \in SourceNames |-> {}]
    /\ sink = {}
    /\ qfile = NoFile
    /\ \/ stfile = NoState
       \/ \E f \in BadForms : stfile = [exists |-> TRUE, form |-> f, sources |-> <<>>]
       \/ \E ca \in 0..(MaxId + 2), cb \in 0..(MaxTie + 1) :
            stfile = save_state(StoredMapping(ca, cb))
    /\ state = <<>>
    /\ pc = "s_init"
    /\ pending = <<>>
    /\ index = 0
    /\ remaining = <<>>
    /\ src_i = 0
    /\ rows = <<>>
    /\ log = <<>>
    /\ cursor = NoCursor
    /\ stfile0 = NoState
    /\ healthy = FALSE
    /\ ret = TRUE
    /\ appended = <<>>
    /\ arg = <<>>
    /\ ReprocessOff
    /\ DirectRun

\* state.py 11-23: load_state(path); an exception that the except clause
\* does not name leaves the function
SLoad ==
    /\ pc \in {"s_init", "s_load", "s_update", "s_save"}
    /\ IF load_state_raises(stfile) # "none" /\ ~load_state_catches(load_state_raises(stfile))
         THEN pc' = "s_raised" /\ state' = state
         ELSE pc' = "s_load" /\ state' = load_state(stfile)
    /\ stfile0' = stfile
    /\ UNCHANGED <<cfgvars, table, sink, qfile, stfile, pending, index, remaining, src_i,
                   rows, log, cursor, healthy, harnessvars, clockvars, runnervars>>

\* state.py 49-61: update_source_state with the watermark of a one-row batch
SUpdate ==
    /\ pc \in {"s_load", "s_update"}
    /\ \E i \in DOMAIN sources : \E r \in Universe(sources[i]) :
         /\ src_i' = i
         /\ rows' = <<r>>
         /\ state' = update_source_state(state, sources[i], WatermarkOf(sources[i], <<r>>))
    /\ pc' = "s_update"
    /\ UNCHANGED <<cfgvars, table, sink, qfile, stfile, pending, index, remaining,
                   log, cursor, stfile0, healthy, harnessvars, clockvars, runnervars>>

\* state.py 26-33: save_state(path, state)
SSave ==
    /\ pc \in {"s_load", "s_update"}
    /\ stfile' = save_state(state)
    /\ pc' = "s_save"
    /\ UNCHANGED <<cfgvars, table, sink, qfile, state, pending, index, remaining, src_i,
                   rows, log, cursor, stfile0, healthy, harnessvars, clockvars, runnervars>>

NextState == SLoad \/ SUpdate \/ SSave

SpecState == InitState /\ [][NextState]_vars

\* --------------------- the watermark of one batch, fresh and replayed
\* the rows a batch is drawn from; the tie-breaker of "f" may be negative
WmRows(name) ==
    IF name = "f"
      THEN {[id |-> k, ts |-> PyDt(t), data |-> 1] : t \in 0..MaxTs, k \in (-1)..MaxTie}
      ELSE Universe(name)

\* batches of up to MaxBatch rows in any order
WmBatches(name) == UNION {[1..n -> WmRows(name)] : n \in 1..MaxBatch}

InitWatermark ==
    /\ \E n \in {"a", "f"} : sources = <<n>> /\ rows \in WmBatches(n)
    /\ batch_size = MaxBatch
    /\ lookback_minutes = 0
    /\ queue_max_mb = 1
    /\ table = [n \in SourceNames |-> {}]
    /\ sink = {}
    /\ qfile = NoFile
    /\ stfile = NoState
    /\ state = <<>>
    /\ pc = "w_init"
    /\ pending = <<>>
    /\ index = 0
    /\ remaining = <<>>
    /\ src_i = 1
    /\ log = <<>>
    /\ cursor = NoCursor
    /\ stfile0 = NoState
    /\ healthy = FALSE
    /\ ret = TRUE
    /\ appended = <<>>
    /\ arg = <<>>
    /\ ReprocessOff
    /\ DirectRun

\* main.py 191-199: the batch was delivered at once; the watermark of the
\* raw rows is stored and saved
WFresh ==
    /\ pc = "w_init"
    /\ state' = update_source_state(state, sources[src_i], WatermarkOf(sources[src_i], rows))
    /\ stfile0' = save_state(state')
    /\ pc' = "w_fresh"
    /\ UNCHANGED <<cfgvars, table, sink, qfile, stfile, pending, index, remaining, src_i,
                   rows, log, cursor, healthy, harnessvars, clockvars, runnervars>>

\* main.py 189, 201-203: the delivery failed instead; the records are queued
WQueue ==
    /\ pc = "w_fresh"
    /\ qfile' = append_queue(qfile, QueuedItem(sources[src_i], rows), queue_max_mb).file
    /\ pc' = "w_queued"
    /\ UNCHANGED <<cfgvars, table, sink, stfile, state, pending, index, remaining, src_i,
                   rows, log, cursor, stfile0, healthy, harnessvars, clockvars, runnervars>>

\* main.py 134-154: the queued records are loaded and delivered; the
\* watermark of the records is stored and saved
WReplay ==
    /\ pc = "w_queued"
    /\ pending' = load_queue(qfile)
    /\ index' = 1
    /\ stfile' = save_state(update_source_state(<<>>, pending'[1].source,
                                 WatermarkOf(pending'[1].source, pending'[1].rows)))
    /\ pc' = "w_replayed"
    /\ UNCHANGED <<cfgvars, table, sink, qfile, state, remaining, src_i, rows, log,
                   cursor, stfile0, healthy, harnessvars, clockvars, runnervars>>

NextWatermark == WFresh \/ WQueue \/ WReplay

SpecWatermark == InitWatermark /\ [][NextWatermark]_vars

\* ------------------------------------------------ fetch_rows, called alone
\* every other variable of the model is idle in the harnesses
IdleRun ==
    /\ cursor = NoCursor
    /\ stfile0 = NoState
    /\ ReprocessOff
    /\ DirectRun
    /\ sink = {}
    /\ stfile = NoState
    /\ state = <<>>
    /\ index = 0
    /\ src_i = 0
    /\ log = <<>>
    /\ healthy = FALSE

InitFetch ==
    /\ sources \in {<<"a">>, <<"f">>}
    /\ batch_size \in 1..MaxBatch
    /\ lookback_minutes = 0
    /\ queue_max_mb = 0
    /\ table \in {[n \in SourceNames |-> IF IsKnown(n) THEN S ELSE {}] :
                     S \in SUBSET Universe(sources[1])}
    /\ arg \in [last_id : 0..MaxId, last_ts : (0 - 1)..MaxTs, last_tie : 0..MaxTie]
    /\ incremental(sources[1]).mode = "id" => arg.last_ts = Epoch /\ arg.last_tie = arg.last_id
    /\ qfile = NoFile
    /\ pc = "f_call"
    /\ pending = <<>>
    /\ remaining = <<>>
    /\ rows = <<>>
    /\ ret = TRUE
    /\ appended = <<>>
    /\ IdleRun

\* collector.py 82-152: fetch_rows(sql_conn, source, last_id, last_ts, last_tie, batch_size)
FetchCall ==
    /\ pc = "f_call"
    /\ rows' = fetch_rows(table[sources[1]], sources[1], arg.last_id, arg.last_ts,
                          arg.last_tie, batch_size)
    /\ pc' = "f_done"
    /\ UNCHANGED <<cfgvars, table, sink, qfile, stfile, state, pending, index,
                   remaining, src_i, log, healthy, harnessvars, cursor, stfile0, clockvars,
                   runnervars>>

NextFetch == FetchCall

SpecFetch == InitFetch /\ [][NextFetch]_vars

\* ------------------------------------------- the queue module, called alone
\* the items run() hands to append_queue: the records built from a batch
QueueItems ==
    UNION {{[source |-> n, rows |-> _build_records(n, OrderBy(incremental(n), S)),
             rows_is_list |-> TRUE] :
               S \in {B \in SUBSET Universe(n) : B # {} /\ Cardinality(B) <= MaxBatch}} :
           n \in {"a", "d"}}

InitQueue ==
    /\ sources = <<"a", "d">>
    /\ batch_size = MaxBatch
    /\ lookback_minutes = 0
    /\ queue_max_mb \in {0, 1}
    /\ table = [n \in SourceNames |-> {}]
    /\ qfile \in {NoFile, [exists |-> TRUE, lines |-> <<>>],
                  [exists |-> TRUE, lines |-> <<CorruptLine>>]}
    /\ pc = "q_init"
    /\ pending = <<>>
    /\ remaining = <<>>
    /\ rows = <<>>
    /\ ret = TRUE
    /\ appended = <<>>
    /\ arg = <<>>
    /\ IdleRun

IsQueuePc == pc \in {"q_init", "q_append", "q_rewrite", "q_load"}

\* agent_queue.py 40-47: append_queue(path, item, max_mb)
QAppend ==
    /\ IsQueuePc
    /\ Len(qfile.lines) < MaxLines
    /\ \E item \in QueueItems :
         LET res == append_queue(qfile, item, queue_max_mb)
         IN /\ qfile' = res.file
            /\ ret' = res.ok
            /\ appended' = IF res.ok THEN Append(appended, item) ELSE appended
    /\ pc' = "q_append"
    /\ pending' = <<>>
    /\ remaining' = <<>>
    /\ UNCHANGED <<cfgvars, table, sink, stfile, state, index, src_i, rows, log,
                   healthy, arg, cursor, stfile0, clockvars, runnervars>>

\* agent_queue.py 50-64: rewrite_queue(path, items) with a suffix of the loaded items
QRewrite ==
    /\ IsQueuePc
    /\ \E k \in 1..(Len(load_queue(qfile)) + 1) :
         LET items == SubSeq(load_queue(qfile), k, Len(load_queue(qfile)))
         IN /\ qfile' = rewrite_queue(qfile, items)
            /\ appended' = items
            /\ remaining' = items
    /\ pc' = "q_rewrite"
    /\ pending' = <<>>
    /\ ret' = TRUE
    /\ UNCHANGED <<cfgvars, table, sink, stfile, state, index, src_i, rows, log,
                   healthy, arg, cursor, stfile0, clockvars, runnervars>>

\* agent_queue.py 13-28: load_queue(path)
QLoad ==
    /\ IsQueuePc
    /\ pending' = load_queue(qfile)
    /\ pc' = "q_load"
    /\ remaining' = <<>>
    /\ ret' = TRUE
    /\ UNCHANGED <<cfgvars, table, sink, qfile, stfile, state, index, src_i, rows, log,
                   healthy, appended, arg, cursor, stfile0, clockvars, runnervars>>

NextQueue == QAppend \/ QRewrite \/ QLoad

SpecQueue == InitQueue /\ [][NextQueue]_vars

\* ---------------------------------------------------- the writes, step by step
\* the lists rewrite_queue is called with
WriteItems == {x \in QueueItems : Len(x.rows) = 1}

WriteLists == {<<x>> : x \in WriteItems} \cup {<<x, y>> : x, y \in WriteItems}

\* the number of writes json.dump makes to the temporary file of save_state
DumpChunks == 2

\* arg and stfile0 hold the two files as they were when the write began,
\* appended the lines written to the temporary file so far, index the chunks
\* of the state document written to its temporary file so far
InitWrite ==
    /\ sources = <<"a", "d">>
    /\ batch_size = MaxBatch
    /\ lookback_minutes = 0
    /\ queue_max_mb = 1
    /\ table = [n \in SourceNames |-> {}]
    /\ sink = {}
    /\ qfile \in {NoFile, [exists |-> TRUE, lines |-> <<CorruptLine>>]}
    /\ \/ stfile = NoState
       \/ stfile = [exists |-> TRUE, form |-> "garbage", sources |-> <<>>]
    /\ state = load_state(stfile)
    /\ pc = "idle"
    /\ pending = <<>>
    /\ index = 0
    /\ remaining = <<>>
    /\ src_i = 0
    /\ rows = <<>>
    /\ log = <<>>
    /\ cursor = NoCursor
    /\ stfile0 = stfile
    /\ healthy = FALSE
    /\ ret = TRUE
    /\ appended = <<>>
    /\ arg = qfile
    /\ ReprocessOff
    /\ DirectRun

\* agent_queue.py 51-55: rewrite_queue with an empty list removes the file
RqUnlink ==
    /\ pc = "idle"
    /\ arg' = qfile
    /\ stfile0' = stfile
    /\ remaining' = <<>>
    /\ appended' = <<>>
    /\ qfile' = NoFile
    /\ UNCHANGED <<cfgvars, table, sink, stfile, state, pc, pending, index, src_i, rows,
                   log, cursor, healthy, ret, clockvars, runnervars>>

\* agent_queue.py 56-59: rewrite_queue with a non-empty list opens a
\* temporary file in the directory of the queue file
RqOpen ==
    /\ pc = "idle"
    /\ \E items \in WriteLists : remaining' = items
    /\ arg' = qfile
    /\ stfile0' = stfile
    /\ appended' = <<>>
    /\ pc' = "rq_write"
    /\ UNCHANGED <<cfgvars, table, sink, qfile, stfile, state, pending, index, src_i, rows,
                   log, cursor, healthy, ret, clockvars, runnervars>>

\* mutant: the lines are written to the queue file itself
RqWrite_inPlace ==
    /\ pc = "rq_write"
    /\ Len(appended) < Len(remaining)
    /\ appended' = Append(appended, json_dumps(remaining[Len(appended) + 1]))
    /\ qfile' = [exists |-> TRUE, lines |-> appended']
    /\ UNCHANGED <<cfgvars, table, sink, stfile, state, pc, pending, index, remaining,
                   src_i, rows, log, cursor, stfile0, healthy, ret, arg, clockvars,
                   runnervars>>

\* agent_queue.py 60-62: one item is written to the temporary file
RqWrite ==
    /\ pc = "rq_write"
    /\ Len(appended) < Len(remaining)
    /\ appended' = Append(appended, json_dumps(remaining[Len(appended) + 1]))
    /\ UNCHANGED <<cfgvars, table, sink, qfile, stfile, state, pc, pending, index,
                   remaining, src_i, rows, log, cursor, stfile0, healthy, ret, arg,
                   clockvars, runnervars>>

\* agent_queue.py 63-64: the temporary file is closed and renamed over the
\* queue file
RqReplace ==
    /\ pc = "rq_write"
    /\ Len(appended) = Len(remaining)
    /\ qfile' = [exists |-> TRUE, lines |-> appended]
    /\ pc' = "idle"
    /\ UNCHANGED <<cfgvars, table, sink, stfile, state, pending, index, remaining, src_i,
                   rows, log, cursor, stfile0, healthy, harnessvars, clockvars,
                   runnervars>>

\* state.py 27-30: save_state opens a temporary file in the directory of the
\* state file
SsOpen ==
    /\ pc = "idle"
    /\ \E ca \in 0..1, cb \in 0..1 : state' = StoredMapping(ca, cb)
    /\ arg' = qfile
    /\ stfile0' = stfile
    /\ index' = 0
    /\ pc' = "ss_write"
    /\ UNCHANGED <<cfgvars, table, sink, qfile, stfile, pending, remaining, src_i, rows,
                   log, cursor, healthy, ret, appended, clockvars, runnervars>>

\* state.py 31: json.dump writes a chunk of the document to the temporary file
SsWrite ==
    /\ pc = "ss_write"
    /\ index < DumpChunks
    /\ index' = index + 1
    /\ UNCHANGED <<cfgvars, table, sink, qfile, stfile, state, pc, pending, remaining,
                   src_i, rows, log, cursor, stfile0, healthy, harnessvars, clockvars,
                   runnervars>>

\* state.py 32-33: the temporary file is closed and renamed over the state file
SsReplace ==
    /\ pc = "ss_write"
    /\ index = DumpChunks
    /\ stfile' = save_state(state)
    /\ pc' = "idle"
    /\ UNCHANGED <<cfgvars, table, sink, qfile, state, pending, index, remaining, src_i,
                   rows, log, cursor, stfile0, healthy, harnessvars, clockvars,
                   runnervars>>

\* the process stops during a write; the temporary file is left behind
WriteStop ==
    /\ pc \in {"rq_write", "ss_write"}
    /\ pc' = "stopped"
    /\ UNCHANGED <<cfgvars, table, sink, qfile, stfile, state, pending, index, remaining,
                   src_i, rows, log, cursor, stfile0, healthy, harnessvars, clockvars,
                   runnervars>>

\* the process is started again
WriteRestart ==
    /\ pc = "stopped"
    /\ pc' = "idle"
    /\ state' = load_state(stfile)
    /\ UNCHANGED <<cfgvars, table, sink, qfile, stfile, pending, index, remaining,
                   src_i, rows, log, cursor, stfile0, healthy, harnessvars, clockvars,
                   runnervars>>

NextWrite ==
    \/ RqUnlink \/ RqOpen \/ RqWrite \/ RqReplace
    \/ SsOpen \/ SsWrite \/ SsReplace
    \/ WriteStop \/ WriteRestart

SpecWrite == InitWrite /\ [][NextWrite]_vars

\* ------------------------------------------------------- shared notions
IdsOf(records) == {records[i].source_id : i \in DOMAIN records}

\* the source_id the sink receives for a raw row of a source
SourceIdOf(name, row) == _build_record(name, row).source_id

\* lexicographic order of (ts, tie) pairs
LexLess(t1, k1, t2, k2) == t1 < t2 \/ (t1 = t2 /\ k1 < k2)

\* watermark w1 is lower than watermark w2 in the order of the source's mode
WmLess(name, w1, w2) ==
    IF incremental(name).mode = "id" THEN w1.last_id < w2.last_id
    ELSE LexLess(w1.last_ts, w1.last_tie, w2.last_ts, w2.last_tie)

\* the log a drain writes for items 1..n of the loaded queue when all valid
\* ones were delivered
DrainLog(n) ==
    [j \in 1..n |-> [event |-> IF IsInvalid(pending[j]) THEN "skip" ELSE "queued_sent",
                     source |-> pending[j].source]]

\* ------------------------------------------------------------------- C1
\* C1: when the drain of the loaded queue i1..in first fails at item ik, the
\* queue file is rewritten to exactly ik..in in the original order, the items
\* before ik were all handled in order (delivered, accepted by the sink), and
\* nothing after ik was attempted: the cycle's log is the delivery of
\* i1..i(k-1) followed by the one failure.
C1_ReplayOrder ==
    /\ pc \in {"drain", "drain_save", "rewrite"} => pending = load_queue(qfile)
    /\ pc = "backoff" =>
         /\ load_queue(qfile) = SubSeq(pending, index, Len(pending))
         /\ log = DrainLog(index - 1)
                    \o <<[event |-> "http_error", source |-> pending[index].source]>>
         /\ \A j \in 1..(index - 1) :
              ~IsInvalid(pending[j]) => IdsOf(pending[j].rows) \subseteq sink

\* a queue of three items whose second delivery failed was rewritten
C1_Witness ==
    /\ pc = "backoff"
    /\ Len(pending) = 3
    /\ index = 2
    /\ Len(load_queue(qfile)) = 2

C3_NoLoss ==
    \A i \in DOMAIN sources :
       incremental(sources[i]).mode = "id" =>
          \A r \in table[sources[i]] :
             r.id <= Persisted(sources[i]).last_id =>
                SourceIdOf(sources[i], r) \in sink

\* the watermark of "a" covers two rows, the later one replayed from the queue
C3_Witness ==
    /\ Persisted("a").last_id = 2
    /\ Cardinality(table["a"]) = 2
    /\ \E i \in DOMAIN log : log[i] = [event |-> "queued_sent", source |-> "a"]

\* ------------------------------------------------------------------- C5
\* C5: storing the watermark after a successful delivery of an id-mode batch
\* with maximum id M leaves the persisted last_id equal to M, and every
\* extraction of an id-mode source returns only rows above the persisted
\* last_id.
C5_IdWatermark ==
    [][/\ (pc = "save" /\ pc' = "extract" /\ incremental(sources[src_i]).mode = "id") =>
            /\ PersistedIn(stfile', sources[src_i]).last_id = MaxId_of(rows, "id")
            /\ \A k \in DOMAIN rows : rows[k].id <= PersistedIn(stfile', sources[src_i]).last_id
       /\ (pc = "drain_save" /\ pc' \in {"drain", "rewrite"} /\ rows # <<>>
             /\ incremental(pending[index].source).mode = "id") =>
            PersistedIn(stfile', pending[index].source).last_id = MaxId_of(rows, "id")
       /\ (pc = "extract" /\ pc' = "send" /\ incremental(sources[src_i]).mode = "id") =>
            \A k \in DOMAIN rows' : rows'[k].id > Persisted(sources[src_i]).last_id]_vars

\* a batch of two rows was delivered and its maximum persisted
C5_Witness ==
    /\ pc = "extract"
    /\ Persisted("a").last_id = 2
    /\ log # <<>> /\ log[Len(log)] = [event |-> "sent", source |-> "a"]
    /\ batch_size = 2

\* ------------------------------------------------------------------- C6
\* C6: the persisted watermark of a source never decreases: last_id in id
\* mode, (last_ts, last_tie) lexicographically in ts mode.
C6_Monotonic ==
    [][\A n \in SourceNames : ~WmLess(n, Persisted(n)', Persisted(n))]_vars

\* ------------------------------------------------------------------- C4
\* the greatest row of a table in the order of the source's mode
IsGreatest(name, r) ==
    \A q \in table[name] \ {r} : OrderBefore(incremental(name), q, r)

\* every row of every configured source is accepted and the persisted
\* watermark is at the greatest row
AllDelivered ==
    \A i \in DOMAIN sources :
       \A r \in table[sources[i]] :
          /\ SourceIdOf(sources[i], r) \in sink
          /\ IsGreatest(sources[i], r) =>
               IF incremental(sources[i]).mode = "id"
                 THEN Persisted(sources[i]).last_id = r.id
                 ELSE /\ Persisted(sources[i]).last_ts = r.ts.v
                      /\ Persisted(sources[i]).last_tie = r.id

\* C4: once every extraction and delivery succeeds, every row present in a
\* source is eventually accepted by the sink and the persisted watermark
\* reaches the greatest row, for every batch_size and lookback_minutes.
C4_EventuallyDelivered == healthy ~> AllDelivered

\* ------------------------------------------------------------------- C7
\* the rows of the called source that lie after the cursor in (ts, tie) order
AfterCursor ==
    {r \in table[sources[1]] : LexLess(arg.last_ts, arg.last_tie, r.ts.v, r.id)}

C8_CapRejects ==
    [][pc' = "q_append" =>
         /\ (queue_max_mb > 0 /\ qfile.exists /\ st_size(qfile) >= queue_max_mb * MB)
               => (ret' = FALSE /\ qfile' = qfile)
         /\ queue_max_mb = 0 => (ret' = TRUE /\ qfile' # qfile)]_vars

\* an append was rejected by a file that holds exactly the cap or more
C8_Witness ==
    /\ pc = "q_append"
    /\ ret = FALSE
    /\ queue_max_mb = 1
    /\ st_size(qfile) >= queue_max_mb * MB
    /\ Len(qfile.lines) >= 2

\* ------------------------------------------------------------------- C9
\* C9: with a cap N > 0 the queue file never holds more than N megabytes.
C9_NeverExceedsCap ==
    queue_max_mb > 0 => st_size(qfile) <= queue_max_mb * MB

\* ------------------------------------------------------------------ C10
\* C10: after rewrite_queue([]) the file does not exist and load_queue
\* returns the empty sequence; the items appended to an empty queue are what
\* load_queue returns, same content, in append order.
C10_RoundTrip ==
    /\ (pc = "q_rewrite" /\ remaining = <<>>) =>
           (~qfile.exists /\ load_queue(qfile) = <<>>)
    /\ IsQueuePc => load_queue(qfile) = appended
    /\ pc = "q_load" => pending = appended

\* three different items were appended and loaded back
C10_Witness ==
    /\ pc = "q_load"
    /\ Len(pending) = 3
    /\ pending[1] # pending[2]
    /\ pending[1].source = "d"
    /\ Len(pending[2].rows) = 2

\* ------------------------------------------------------------------ C11
\* the step of run() that extracts the source at src_i
IsFetchStep ==
    /\ pc = "extract"
    /\ src_i <= Len(sources)
    /\ pc' = "send" \/ (pc' = "extract" /\ src_i' = src_i + 1)

\* the step of run() that stores the watermark of a freshly delivered batch
IsSaveStep == pc = "save" /\ pc' = "extract"

\* the rows of a source that lie after (t, k) in (ts, tie) order
RowsAfter(name, t, k) == {r \in table[name] : LexLess(t, k, r.ts.v, r.id)}

\* row r carries the greatest (ts, tie) of the batch
IsBatchMax(batch, r) ==
    \A j \in DOMAIN batch :
       batch[j] = r \/ LexLess(batch[j].ts.v, batch[j].id, r.ts.v, r.id)

IsSendOkStep == pc = "send" /\ pc' = "save"

\* the rows of an id-mode source above the persisted last_id
Undelivered(name) == {r \in table[name] : r.id > Persisted(name).last_id}

\* C12: when nothing fails, every batch of an id-mode source that is
\* delivered holds the lowest ids above the persisted last_id in ascending
\* order, as many as there are up to batch_size, none of them delivered
\* before; the save that follows persists the id of its last row, so the
\* next cycle's batch starts right after it.
C12_ConsecutiveBatches ==
    [][/\ (IsSendOkStep /\ incremental(sources[src_i]).mode = "id") =>
            LET name == sources[src_i]
            IN /\ Range(rows) \subseteq Undelivered(name)
               /\ Len(rows) = Min2(batch_size, Cardinality(Undelivered(name)))
               /\ \A i, j \in DOMAIN rows : i < j => rows[i].id < rows[j].id
               /\ \A r \in Undelivered(name) \ Range(rows) :
                     \A j \in DOMAIN rows : rows[j].id < r.id
               /\ \A j \in DOMAIN rows : SourceIdOf(name, rows[j]) \notin sink
               /\ \A j \in DOMAIN rows : SourceIdOf(name, rows[j]) \in sink'
       /\ (IsSaveStep /\ incremental(sources[src_i]).mode = "id") =>
            PersistedIn(stfile', sources[src_i]).last_id = rows[Len(rows)].id]_vars

\* source "a" holds two rows and batch_size is 1: the second cycle delivered
\* the second row after the first cycle had delivered the first
C12_Witness ==
    /\ batch_size = 1
    /\ Cardinality(table["a"]) = 2
    /\ pc = "extract"
    /\ log # <<>> /\ log[Len(log)] = [event |-> "sent", source |-> "a"]
    /\ cursor.last_id = 1
    /\ Persisted("a").last_id = 2
    /\ \A r \in table["a"] : SourceIdOf("a", r) \in sink

\* ------------------------------------------------------------------ C13
\* the step of run() that stores the watermark of a replayed item
IsDrainSaveStep == pc = "drain_save" /\ pc' \in {"drain", "rewrite"}

\* C13: an extraction that returns no rows leaves every persisted watermark
\* unchanged, and so does the replay of a queued item whose rows list is
\* empty.
C13_EmptyBatchKeepsWatermark ==
    [][/\ (IsFetchStep /\ rows' = <<>>) =>
            \A n \in SourceNames : PersistedIn(stfile', n) = Persisted(n)
       /\ (pc = "drain" /\ ~IsInvalid(pending[index]) /\ pending[index].rows = <<>>) =>
            \A n \in SourceNames : PersistedIn(stfile', n) = Persisted(n)
       /\ (IsDrainSaveStep /\ rows = <<>>) =>
            \A n \in SourceNames : PersistedIn(stfile', n) = Persisted(n)]_vars

\* ------------------------------------------------------------------ C16
\* the item names no configured source or its rows are not a list
IsDroppable(item) == (\A i \in DOMAIN sources : sources[i] # item.source) \/ ~item.rows_is_list

IsRewound(name) == cursor.last_ts < LookbackCursor(state, name).last_ts

\* C14: when the batch of a ts-mode source was fetched with a cursor rewound
\* by the periodic reprocessing, the watermark persisted after its delivery
\* is not lower than the watermark that was persisted when the cycle began.
C14_RewindNotPersisted ==
    [][(IsSaveStep /\ incremental(sources[src_i]).mode = "ts" /\ IsRewound(sources[src_i])) =>
          ~WmLess(sources[src_i], PersistedIn(stfile', sources[src_i]),
                  PersistedIn(stfile0, sources[src_i]))]_vars

\* ------------------------------------------------------------------ C15
\* the step of run() that handles the failed delivery of a fresh batch
IsSendFailStep == pc = "send" /\ pc' = "extract"

\* the queue file has reached the configured cap
CapReached == queue_max_mb > 0 /\ qfile.exists /\ st_size(qfile) >= queue_max_mb * MB

\* C15: when the delivery of a freshly extracted batch fails while the queue
\* file has reached the cap, the batch is dropped: the queue file, the
\* watermark file, the in-memory watermarks and the sink are unchanged, the
\* failure and the drop are logged, and the loop goes on to the next source.
C15_DropOnFullQueue ==
    [][(IsSendFailStep /\ CapReached) =>
          /\ qfile' = qfile
          /\ stfile' = stfile
          /\ state' = state
          /\ sink' = sink
          /\ rows' = <<>>
          /\ src_i' = src_i + 1
          /\ log' = log \o <<[event |-> "http_error", source |-> sources[src_i]],
                              [event |-> "dropped", source |-> sources[src_i]]>>]_vars

\* the batch of "a" filled the queue file to the cap and the batch of "c",
\* whose delivery failed next, was dropped; "c" keeps its watermark
C15_Witness ==
    /\ pc = "extract"
    /\ src_i = 3
    /\ log # <<>> /\ log[Len(log)] = [event |-> "dropped", source |-> "c"]
    /\ CapReached
    /\ Len(load_queue(qfile)) = 1
    /\ Persisted("c").last_id = 0
    /\ table["c"] # {}

\* ------------------------------------------------------------------ C17
\* the step of run() in which the handler of main.py 216-217 logs an error
IsErrorStep == log' # log /\ log' # <<>> /\ log'[Len(log')].event = "error"

\* the source the failing call was working on, "" when there was none
ErrorSource == log'[Len(log')].source

\* C17 as claimed: an error raised inside a cycle takes the loop to the
\* steady-state sleep, from which the next cycle starts, and the persisted
\* watermark of the source being processed is the one the cycle began with.
C17_ErrorKeepsCycleWatermark ==
    [][/\ IsErrorStep =>
            /\ pc' = "sleep"
            /\ ErrorSource # "" =>
                  PersistedIn(stfile', ErrorSource) = PersistedIn(stfile0', ErrorSource)
       /\ pc = "sleep" => pc' \in {"sleep", "top"}]_vars

\* C17 as amended: an error raised inside a cycle takes the loop to the
\* steady-state sleep, from which the next cycle starts, and the failing
\* step changes no persisted watermark: the watermark of the source being
\* processed is the one persisted before the call that raised.
C17_ErrorStepKeepsWatermark ==
    [][/\ IsErrorStep =>
            /\ pc' = "sleep"
            /\ \A n \in SourceNames : PersistedIn(stfile', n) = Persisted(n)
       /\ pc = "sleep" => pc' \in {"sleep", "top"}]_vars

\* the extraction of "a" raised in a cycle whose drain had delivered a
\* queued batch of "a" and advanced its watermark
C17_Witness ==
    /\ pc = "sleep"
    /\ log # <<>> /\ log[Len(log)] = [event |-> "error", source |-> "a"]
    /\ \E i \in DOMAIN log : log[i] = [event |-> "queued_sent", source |-> "a"]
    /\ Persisted("a") # PersistedIn(stfile0, "a")

\* ------------------------------------------------------------------ C18
\* C18: a configuration with a table or column identifier outside the
\* alphanumeric-plus-underscore pattern never reaches the loop: every source
\* of a loop that has completed a cycle has valid identifiers, and no
\* extraction of the loop has failed on an invalid identifier.
C18_BadIdentifierRejected ==
    /\ pc = "sleep" => \A i \in DOMAIN sources : IdentifiersValid(sources[i])
    /\ \A i \in DOMAIN log : log[i].event = "error" => IdentifiersValid(log[i].source)

\* ------------------------------------------------------------------ C19
\* the step is a call of the named function of runner.py
IsCall(name) == arg'.seq # arg.seq /\ arg'.call = name

\* C19: at most one worker thread is alive in every state reached by any
\* sequence of start(), stop() and status() calls interleaved with the
\* worker's steps, and a start() made while the worker is alive returns
\* False and leaves the worker, its position, its stop signal, the recorded
\* config path and last_error as they were.
C19_SingleWorker ==
    /\ [](AliveWorkers <= 1)
    /\ [][(IsCall("start") /\ _thread # 0 /\ pc \notin {"idle", "dead"}) =>
             /\ ret' = FALSE
             /\ _thread' = _thread
             /\ stop_event' = stop_event
             /\ _config_path' = _config_path
             /\ _last_error' = _last_error
             /\ orphans' = orphans
             /\ UNCHANGED <<loopvars, state, qfile, stfile, sink>>]_vars

\* start("p2") was refused while the worker started with "p1" was still in
\* the middle of a cycle after stop() had set its signal
C19_Witness ==
    /\ arg.call = "start" /\ arg.path = "p2"
    /\ ret = FALSE
    /\ stop_event = "set"
    /\ pc = "send"
    /\ _config_path = "p1"
    /\ _thread = 1

\* ------------------------------------------------------------------ C20
\* C20: the worker ends only at the loop condition with the stop signal set
\* (or when its configuration fails to load); once the signal is set no cycle
\* begins, the cycle in flight goes through its steps to the sleep or the
\* backoff, and the worker eventually ends; a status() call made after it
\* ended reports running = false.
C20_StopBetweenCycles ==
    /\ [][/\ (pc' = "dead" /\ pc # "dead") =>
                ((pc = "top" /\ stop_event = "set") \/ (pc = "boot"))
          /\ (stop_event = "set" /\ pc = "top") => pc' \in {"top", "dead"}
          /\ (stop_event = "set" /\ pc' = "top" /\ pc # "top") =>
                pc \in {"sleep", "backoff", "boot"}
          /\ (IsCall("status") /\ pc = "dead") => status_ret'.running = FALSE]_vars
    /\ (stop_event = "set") ~> (pc = "dead")

\* the only worker started delivered a batch, ended after stop(), and a later
\* status() reported it
C20_Witness ==
    /\ pc = "dead"
    /\ stop_event = "set"
    /\ arg.call = "status"
    /\ status_ret.running = FALSE
    /\ status_ret.config_path = "p1"
    /\ _thread = 1
    /\ sink # {}

\* ------------------------------------------------------------------ C21
\* the step ends the delivery attempt of the fetched batch of the source
IsSendStep == pc = "send" /\ pc' # "send"

\* C21: send_batch returns True or False for every batch and never raises:
\* every delivery attempt of a fetched batch either is accepted and goes on
\* to save the watermark, or is treated as a failure, the batch then being
\* queued (or dropped on a full queue) and the loop moving to the next source.
C21_SendNeverRaises ==
    [][IsSendStep =>
         \/ pc' = "save" /\ sink' = send_batch(sink, _build_records(sources[src_i], rows))
         \/ /\ pc' = "extract"
            /\ sink' = sink
            /\ qfile' = append_queue(qfile, [source |-> sources[src_i],
                                             rows |-> _build_records(sources[src_i], rows),
                                             rows_is_list |-> TRUE], queue_max_mb).file]_vars

\* ------------------------------------------------------------------ C22
\* the watermark file is absent or is not the text of a JSON object
Unparsable(file) == ~file.exists \/ file.form \in {"array", "garbage", "unreadable"}

\* C22: load_state never raises and returns the empty mapping for a file that
\* is absent or unparsable; and save_state called right after load_state,
\* with no update in between, writes a file that holds the source-to-watermark
\* mapping the file held before.
C22_LoadSaveIdempotent ==
    /\ [](pc # "s_raised")
    /\ [](pc = "s_load" /\ Unparsable(stfile) => state = <<>>)
    /\ [][(pc = "s_load" /\ pc' = "s_save") =>
             /\ load_state(stfile') = load_state(stfile)
             /\ stfile.exists /\ stfile.form = "object" => stfile'.sources = stfile.sources]_vars

\* a store with an empty entry and a ts-mode entry was loaded and saved again
\* and the file holds what it held
C22_Witness ==
    /\ pc = "s_save"
    /\ stfile0 = save_state(StoredMapping(1, MaxTie + 1))
    /\ stfile = stfile0

\* ------------------------------------------------------------------ C23
\* C23: every source that has an entry in the persisted watermark store has
\* had a batch delivered: reading the watermark of a source that was never
\* delivered adds no entry for it to the mapping that is saved.
C23_EntryOnlyAfterDelivery ==
    \A n \in DOMAIN load_state(stfile) : \E sid \in sink : sid.source = n

\* ------------------------------------------------------------------ C24
\* the step replays a queued item
IsReplayStep == pc = "drain" /\ pc' = "drain_save"

\* C24: the records read back from the queue file are exactly the records
\* built for the failed first attempt, in the same order, and they are what a
\* replay sends: the failed attempt appends _build_records of the fetched
\* batch; each cycle loads the file as it is; a replay sends the loaded
\* records unchanged, each being the record (and so carrying the source_id)
\* that _build_records gives for a row of the source; a failed drain keeps the
\* failed item and the items after it unchanged; a restart leaves the file.
C24_ReplayedRecordsIdentical ==
    [][/\ (IsSendFailStep /\ ~CapReached) =>
             load_queue(qfile') =
                 Append(load_queue(qfile),
                        [source |-> sources[src_i],
                         rows |-> _build_records(sources[src_i], rows),
                         rows_is_list |-> TRUE])
       /\ (pc = "top" /\ pc' \in {"drain", "extract"}) => pending' = load_queue(qfile)
       /\ IsReplayStep =>
             /\ rows' = pending[index].rows
             /\ sink' = sink \cup IdsOf(pending[index].rows)
             /\ \A i \in DOMAIN pending[index].rows :
                  \E r \in table[pending[index].source] :
                     pending[index].rows[i] = _build_record(pending[index].source, r)
             /\ \A i, j \in DOMAIN pending[index].rows :
                  i < j => OrderBefore(incremental(pending[index].source),
                                       pending[index].rows[i].payload,
                                       pending[index].rows[j].payload)
       /\ (pc = "rewrite" /\ pc' # "rewrite" /\ pc' # "top") =>
             /\ load_queue(qfile') = remaining
             /\ \E k \in 1..(Len(pending) + 1) : remaining = SubSeq(pending, k, Len(pending))
       /\ pc' = "top" => qfile' = qfile]_vars

\* the queued batch of source "a", holding the records of the rows with ids
\* 1 and 2 in that order, is being replayed
C24_Witness ==
    /\ pc = "drain_save"
    /\ Len(pending) = 1
    /\ index = 1
    /\ pending[1].source = "a"
    /\ rows = _build_records("a", <<[id |-> 1, ts |-> PyDt(Epoch), data |-> MB \div 2 - 1],
                                    [id |-> 2, ts |-> PyDt(Epoch), data |-> MB \div 2]>>)
    /\ SourceIdOf("a", [id |-> 2, ts |-> PyDt(Epoch), data |-> MB \div 2]) \in sink

\* ------------------------------------------------------------------ C25
\* a queued delivery failed in the cycle in flight: the log holds a delivery
\* failure that is not followed by the queueing or the drop of a fresh batch
DrainFailed ==
    \E i \in DOMAIN log :
       /\ log[i].event = "http_error"
       /\ i = Len(log) \/ log[i + 1].event \notin {"queued", "dropped"}

\* C25: the extraction is entered only from a cycle whose queue was empty or
\* was drained without a failure; after a queued delivery failed the cycle
\* extracts no source, changes no watermark, delivers nothing and writes to
\* the queue file only the failed item and the items after it; the cycle ends
\* in the backoff with that file in place, and a cycle that finds items in
\* the file begins with the drain.
C25_ExtractionOnlyAfterDrain ==
    /\ [](DrainFailed =>
             pc \in {"rewrite", "backoff"} /\ remaining # <<>> /\ src_i = 0)
    /\ [][/\ (pc' = "extract" /\ pc # "extract") =>
                 \/ pc = "top" /\ load_queue(qfile) = <<>>
                 \/ pc = "rewrite" /\ remaining = <<>> /\ load_queue(qfile') = <<>>
                 \/ pc \in {"send", "save"}
          /\ DrainFailed =>
                 /\ state' = state \/ (pc' = "top" /\ state' = load_state(stfile))
                 /\ stfile' = stfile /\ sink' = sink
                 /\ qfile' = qfile \/ (pc = "rewrite" /\ load_queue(qfile') = remaining)
                 /\ \E k \in 1..Len(pending) : remaining = SubSeq(pending, k, Len(pending))
                 /\ pc' \in {"rewrite", "backoff", "top"}
                 /\ (pc = "backoff" /\ pc' = "top") => load_queue(qfile') # <<>>
          /\ (pc = "top" /\ pc' # "top" /\ load_queue(qfile) # <<>>) => pc' = "drain"]_vars

\* the replay of the queued batch of "a" failed and the cycle backs off
\* although a row of "c" waits to be extracted
C25_Witness ==
    /\ pc = "backoff"
    /\ DrainFailed
    /\ remaining # <<>> /\ remaining[1].source = "a"
    /\ load_queue(qfile) = remaining
    /\ table["c"] # {}
    /\ \A sid \in sink : sid.source # "c"

\* ------------------------------------------------------------------ C26
\* C26 as stated: after a queue-drain failure the loop sleeps retry_backoff
\* and then sleeps the interval before the next cycle begins.
C26_BackoffThenInterval ==
    [][(pc = "backoff" /\ pc' # "backoff") => pc' = "sleep"]_vars

\* C26 amended: after a queue-drain failure the loop sleeps retry_backoff and
\* the next cycle begins right after it, with the queue file as the drain
\* left it; the sleep of the interval is reached only from the extraction
\* phase, never in a cycle whose drain failed.
C26_BackoffReplacesInterval ==
    [][/\ (pc = "backoff" /\ pc' # "backoff") => (pc' = "top" /\ qfile' = qfile)
       /\ (pc' = "sleep" /\ pc # "sleep") => (pc = "extract" /\ ~DrainFailed)
       /\ (pc = "rewrite" /\ remaining # <<>> /\ pc' # "rewrite") => pc' = "backoff"]_vars

\* the replay of the queued batch of "a" failed after the batch of "c" had
\* been replayed, and the loop is in the backoff sleep
C26_Witness ==
    /\ pc = "backoff"
    /\ DrainFailed
    /\ Len(remaining) = 1 /\ remaining[1].source = "a"
    /\ Len(log) = 2 /\ log[1] = [event |-> "queued_sent", source |-> "c"]

\* ------------------------------------------------------------------ C27
\* key k is stored in entry new exactly as it is in entry old
KeptKey(old, new, k) ==
    /\ k \in DOMAIN new <=> k \in DOMAIN old
    /\ k \in DOMAIN old => new[k] = old[k]

\* the entry of a source in a mapping, {} when it has none
EntryOf(mapping, name) == IF name \in DOMAIN mapping THEN mapping[name] ELSE <<>>

\* C27: the update that follows a successful id-mode delivery sets the
\* source's last_id to the maximum id of the batch and leaves the last_ts and
\* last_tie stored for the source as they were.
C27_IdUpdateKeepsTs ==
    [][(pc' = "s_update" /\ incremental(sources[src_i']).mode = "id") =>
          LET name == sources[src_i']
          IN /\ state'[name].last_id = MaxId_of(rows', "id")
             /\ KeptKey(EntryOf(state, name), state'[name], "last_ts")
             /\ KeptKey(EntryOf(state, name), state'[name], "last_tie")]_vars

\* ------------------------------------------------------------------ C28
\* C28: for every non-empty ts-mode batch, whatever the order of its rows and
\* with negative tie values and equal timestamps, the computed (last_ts,
\* last_tie) is the (ts, tie) pair of a row of the batch that no row of the
\* batch exceeds in lexicographic order, and last_id is that tie value.
C28_TsWatermarkIsGreatest ==
    (pc = "w_fresh" /\ incremental(sources[1]).mode = "ts") =>
        LET wm == WatermarkOf(sources[1], rows)
        IN /\ wm.last_ts.tag = "dt" /\ wm.last_tie.tag = "int"
           /\ \E i \in DOMAIN rows :
                 rows[i].ts.v = wm.last_ts.v /\ rows[i].id = wm.last_tie.v
           /\ \A i \in DOMAIN rows :
                 ~LexLess(wm.last_ts.v, wm.last_tie.v, rows[i].ts.v, rows[i].id)
           /\ wm.last_id = wm.last_tie.v
           /\ state[sources[1]] = [last_id |-> wm.last_tie.v,
                                   last_ts |-> isoformat(wm.last_ts.v),
                                   last_tie |-> wm.last_tie.v]

\* a batch in descending order whose greatest pair has a negative tie
C28_Witness ==
    /\ pc = "w_fresh"
    /\ sources = <<"f">>
    /\ rows = <<[id |-> -1, ts |-> PyDt(MaxTs), data |-> 1],
                [id |-> MaxTie, ts |-> PyDt(0), data |-> 1]>>
    /\ state["f"].last_tie = -1
    /\ state["f"].last_id = -1

\* ------------------------------------------------------------------ C29
\* C29: for every batch, in id mode and in ts mode, the watermark computed
\* from the raw fetched rows equals the watermark computed from the records
\* built from those rows, written to the queue file and read back: the file
\* saved after a replay is the file saved after a delivery at once.
C29_FreshAndReplayAgree ==
    pc = "w_replayed" =>
        /\ Len(pending) = 1
        /\ pending[1].source = sources[1]
        /\ WatermarkOf(sources[1], pending[1].rows) = WatermarkOf(sources[1], rows)
        /\ stfile = stfile0

\* a ts-mode batch of two rows was replayed from the queue file, where its
\* timestamps are texts, and the same watermark was saved
C29_Witness ==
    /\ pc = "w_replayed"
    /\ sources = <<"f">>
    /\ Len(rows) = 2 /\ rows[1].ts = PyDt(MaxTs) /\ rows[2].ts = PyDt(0)
    /\ pending[1].rows[1].payload.ts = PyStr(MaxTs)
    /\ stfile.exists /\ stfile = stfile0
    /\ stfile.sources["f"].last_ts = PyStr(MaxTs)

\* ------------------------------------------------------------------ C30
\* the step advances the next-due time of the reprocessing
IsAdvanceStep == next_reprocess_at' # next_reprocess_at

\* C30: the next-due time is advanced only by the step that ends the loop
\* over the sources, to now + reprocess_every_minutes, never in a cycle that
\* ends in the backoff or in an error; a ts-mode source fetched while the
\* schedule is due is fetched with the rewound cursor; and in the cycle that
\* advances the next-due time the ts-mode source was extracted with the
\* rewound cursor.
C30_RewindThenAdvance ==
    [][/\ IsAdvanceStep =>
             /\ pc = "extract" /\ src_i > Len(sources) /\ pc' = "sleep"
             /\ next_reprocess_at' = now + reprocess_every_minutes
             /\ (reprocess_window_minutes > 0
                    /\ incremental(sources[Len(sources)]).mode = "ts") => cursor.rewound
       /\ (IsFetchStep /\ RewindApplies(sources[src_i])) =>
             /\ cursor'.rewound
             /\ cursor'.last_ts =
                    Min2(LookbackCursor(state', sources[src_i]).last_ts,
                         now - reprocess_window_minutes)]_vars

IsRqReplaceStep == pc = "rq_write" /\ pc' = "idle"

\* C32: at every point of a rewrite_queue or save_state call, and after the
\* process stopped during one, the queue file holds either what it held when
\* the call began or the complete new list, and the state file either what
\* it held or the complete new document; a step that is not a rename or an
\* unlink changes neither file; and a completed rewrite_queue with a
\* non-empty list leaves a file that loads as exactly that list, in order.
C32_WritesAreAtomic ==
    [][/\ qfile' = arg' \/ qfile' = rewrite_queue(arg', remaining')
       /\ stfile' = stfile0' \/ stfile' = save_state(state')
       /\ pc' \in {"rq_write", "ss_write", "stopped"} =>
              qfile' = arg' /\ stfile' = stfile0'
       /\ IsRqReplaceStep =>
              /\ qfile' = rewrite_queue(qfile, remaining)
              /\ load_queue(qfile') = remaining]_vars

\* the process stopped after one of two items was written: the queue file
\* still holds its previous contents
C32_Witness ==
    /\ pc = "stopped"
    /\ Len(remaining) = 2
    /\ Len(appended) = 1
    /\ arg.exists
    /\ qfile = arg

\* ------------------------------------------------------------------ C33
\* C33: every send_batch call on a non-empty batch issues exactly one
\* request and returns: True when the status is 2xx, False for any other
\* status and for a transport error; a call on the empty batch issues no
\* request, returns True and leaves _LAST_SEND as it was.
C33_OneRequestPerCall ==
    [][IF arg' = <<>>
         THEN index' = 0 /\ pc' = "sb_returned" /\ ret' /\ appended' = appended
         ELSE /\ index' = 1
              /\ pc' = "sb_returned"
              /\ ret' <=> (200 <= appended'.status /\ appended'.status < 300)]_vars

\* ------------------------------------------------------------------ C34
\* the positions of the items of a source in a list of queue items
ItemsOf(items, name) == {i \in DOMAIN items : items[i].source = name}

\* C34: the queue file never holds two items of one configured source, nor
\* more items than there are sources; and a batch is appended only while the
\* file holds no item of its source.
C34_OneItemPerSource ==
    [][/\ \A n \in SourceNames :
             IsKnown(n) => Cardinality(ItemsOf(load_queue(qfile'), n)) <= 1
       /\ Len(load_queue(qfile')) <= Len(sources)
       /\ (IsSendFailStep /\ ~CapReached) =>
             /\ ItemsOf(load_queue(qfile), sources[src_i]) = {}
             /\ Cardinality(ItemsOf(load_queue(qfile'), sources[src_i])) = 1]_vars

\* the batches of both sources failed in one cycle: the file holds one item
\* of each, in configuration order
C34_Witness ==
    /\ sources = <<"a", "c">>
    /\ Len(load_queue(qfile)) = 2
    /\ load_queue(qfile)[1].source = "a"
    /\ load_queue(qfile)[2].source = "c"
    /\ pc = "top"

\* ------------------------------------------------------------------ C35
\* the handler of main.py 216-217 logs an exception raised in the drain
IsDrainErrorStep == IsErrorStep /\ pc \in {"drain", "drain_save", "rewrite"}

\* C35: throughout the drain the queue file holds what the cycle loaded; an
\* exception raised in the drain, also after items were delivered and their
\* watermarks saved, leaves the file as it is and takes the loop to the
\* sleep without any extraction; the sleep leaves the file alone; and the
\* next cycle loads the whole file and replays it from its first item,
\* sending each replayed item's rows again.
C35_DrainErrorKeepsQueue ==
    [][/\ pc \in {"drain", "drain_save", "rewrite"} => load_queue(qfile) = pending
       /\ IsDrainErrorStep =>
             /\ qfile' = qfile
             /\ pc' = "sleep"
             /\ src_i = 0 /\ src_i' = 0
       /\ pc = "sleep" => (pc' \in {"sleep", "top"} /\ qfile' = qfile)
       /\ (pc = "top" /\ pc' = "drain") =>
             /\ pending' = load_queue(qfile)
             /\ index' = 1
       /\ (pc = "top" /\ pc' = "extract") => load_queue(qfile) = <<>>
       /\ IsReplayStep => sink' = sink \cup IdsOf(pending[index].rows)]_vars

\* the replay of the queued batch of "c" raised after the queued batch of
\* "a" had been delivered and its watermark saved: the file still holds both
C35_Witness ==
    /\ pc = "sleep"
    /\ Len(log) = 2
    /\ log[1] = [event |-> "queued_sent", source |-> "a"]
    /\ log[2] = [event |-> "error", source |-> "c"]
    /\ Len(load_queue(qfile)) = 2
    /\ load_queue(qfile)[1].source = "a"
    /\ IdsOf(load_queue(qfile)[1].rows) \subseteq sink
    /\ Persisted("a").last_id = 1

\* ------------------------------------------------------------------ C36
\* the handler of main.py 216-217 logs an exception raised in the loop over
\* the sources
IsExtractErrorStep == IsErrorStep /\ pc \in {"extract", "send", "save"}

\* C36: the loop over the sources takes them one at a time in configuration
\* order, beginning at the first; a delivery is of the source the loop is
\* at; an exception raised by the extraction or by
\* a later step for a source ends the loop over the sources for that cycle,
\* the sources after it being neither extracted nor delivered before the
\* next cycle starts, and it changes no persisted watermark and nothing
\* delivered.
C36_ErrorSkipsLaterSources ==
    [][/\ (pc' = "extract" /\ pc \notin {"extract", "send", "save"}) => src_i' = 1
       /\ (pc \in {"extract", "send", "save"} /\ pc' \in {"extract", "send", "save"}) =>
             src_i' \in {src_i, src_i + 1}
       /\ (pc \in {"send", "save"} /\ ~IsErrorStep /\ pc' # "top") =>
             \A sid \in sink' \ sink : sid.source = sources[src_i]
       /\ IsExtractErrorStep =>
             /\ ErrorSource = sources[src_i]
             /\ pc' = "sleep"
             /\ sink' = sink /\ stfile' = stfile /\ qfile' = qfile
       /\ pc = "sleep" =>
             /\ pc' \in {"sleep", "top"}
             /\ sink' = sink /\ stfile' = stfile /\ qfile' = qfile]_vars

\* the extraction of "d" raised after the batch of "c" had been delivered
\* and its watermark saved in the same cycle: the row of "e" is neither
\* extracted nor delivered, and the watermark of "c" is in the file
C36_Witness ==
    /\ pc = "sleep"
    /\ sources = <<"c", "d", "e">>
    /\ log = <<[event |-> "sent", source |-> "c"], [event |-> "error", source |-> "d"]>>
    /\ src_i = 2
    /\ Persisted("c").last_id = 1
    /\ PersistedIn(stfile0, "c").last_id = 0
    /\ table["e"] # {}
    /\ \A sid \in sink : sid.source # "e"

====
